---- MODULE Spec2Model ----
(***************************************************************************)
(* State-machine model of the live path of eth-block-events:               *)
(*   - EventBus (src/etl_python/services/event_bus.py): the subscriber     *)
(*     registry, register/unregister, post and post_async;                 *)
(*   - EventListenerService (src/etl_python/services/event_listener.py):   *)
(*     start_listening, the polling loop, _handle_log_event and            *)
(*     stop_listening.                                                     *)
(* Everything runs on one asyncio event loop: a task runs until it awaits, *)
(* so a step of one task is taken only while no other task is in the       *)
(* middle of code that has no suspension point.                            *)
(***************************************************************************)
EXTENDS Integers, Sequences, FiniteSets, TLC

VARIABLES
    subscribers,        \* EventBus._subscribers: kind -> list of sync handlers
    async_subscribers,  \* EventBus._async_subscribers: kind -> list of coroutine handlers
    disp,               \* per publisher: the frame of its post / post_async call
    tasks,              \* per publisher: the tasks created by its post_async
    beginCount,         \* number of publishes begun so far (numbers the events)
    lastObserved,       \* event number seen by the latest sync handler invocation
    prevObserved,       \* event number seen by the sync invocation before that
    regOrder,           \* history: handlers by their latest registration, oldest first
    unregistered,       \* history: subscribers unregistered and not registered since
    raisedIn,           \* history: numbers of the events a sync handler raised on
    calls,              \* number of calls made on the bus so far
    web3_ws,            \* EventListenerService.web3_ws is not None
    active_filters,     \* EventListenerService.active_filters
    lst,                \* the frame of the start_listening task
    installed,          \* node side: ids of the filters installed
    nodeLogs,           \* node side: number of logs handed out so far
    sweepLog,           \* history: what the latest sweep polled and did, and whether
                        \* stop_listening ran since it began
    subscribed,         \* history: the outcome of the latest subscription phase
    stopLog,            \* history: the stop_listening calls since the latest start
    fnInput,            \* the argument of the function a batch or decode step runs
    fnOutput            \* what that function returned

busVars == <<subscribers, async_subscribers, disp, tasks, beginCount,
             lastObserved, prevObserved, regOrder, unregistered, raisedIn, calls>>

listenerVars == <<web3_ws, active_filters, lst, installed, nodeLogs, sweepLog, subscribed,
                  stopLog>>

batchVars == <<fnInput, fnOutput>>

(***************************************************************************)
(* Bounds of the model.                                                    *)
(***************************************************************************)
MaxCalls == 4   \* calls made on the bus in one behaviour: register, unregister,
                \* post and post_async, by a task or by a handler

(***************************************************************************)
(* The subscribers of the model and their @subscribe-tagged methods.       *)
(* dir(subscriber) lists the method names in alphabetical order.           *)
(***************************************************************************)
Subscribers == {"A", "B", "C", "D"}
Kinds == {"ERC20TransferEvent", "EthereumEvent", "BlockEvent"}
Publishers == {"log", "block"}

Methods(s) ==
    CASE s = "A" -> <<"a_sync">>
      [] s = "B" -> <<"b_first", "b_second", "b_task">>
      [] s = "C" -> <<"c_block", "c_task">>
      [] s = "D" -> <<"d_base">>

Handlers == {"a_sync", "b_first", "b_second", "b_task", "c_block", "c_task",
             "d_base"}

Owner(h) == CHOOSE s \in Subscribers : \E i \in 1..Len(Methods(s)) : Methods(s)[i] = h

\* method._event_subscriber_info['event_type']
event_type(h) ==
    IF h = "c_block" THEN "BlockEvent"
    ELSE IF h = "d_base" THEN "EthereumEvent"
    ELSE "ERC20TransferEvent"

\* inspect.iscoroutinefunction(method)
iscoroutinefunction(h) == h \in {"b_task", "c_task"}

\* The kinds each publisher publishes: the log polling loop publishes typed
\* and generic log events, the block listening loop publishes BlockEvent.
PublishKinds(p) ==
    IF p = "log" THEN {"ERC20TransferEvent", "EthereumEvent"} ELSE {"BlockEvent"}

(***************************************************************************)
(* Lists and dictionaries as Python has them.                              *)
(***************************************************************************)
Member(list, h) == \E i \in 1..Len(list) : list[i] = h

Count(list, h) == Cardinality({i \in 1..Len(list) : list[i] = h})

\* list.remove(h): drops the first occurrence only
RemoveFirst(list, h) ==
    LET i == CHOOSE i \in 1..Len(list) :
                 list[i] = h /\ \A j \in 1..(i - 1) : list[j] # h
    IN  SubSeq(list, 1, i - 1) \o SubSeq(list, i + 1, Len(list))

RemoveAll(list, h) == SelectSeq(list, LAMBDA x : x # h)

\* dict.get(k, []): the stored list, or a fresh empty list (no key is created)
Get(d, k) == IF k \in DOMAIN d THEN d[k] ELSE <<>>

\* defaultdict.__getitem__: creates the key with an empty list when missing
Index(d, k) == IF k \in DOMAIN d THEN d ELSE d @@ (k :> <<>>)

(***************************************************************************)
(* EventBus.register / EventBus.unregister on the registry                 *)
(* R = [sync |-> _subscribers, async |-> _async_subscribers].              *)
(***************************************************************************)
\* list.append(method)
PrependHandler(list, h) == <<h>> \o list
AppendHandler(list, h) == Append(list, h)

RegisterMethod(R, h) ==
    LET k == event_type(h) IN
    IF iscoroutinefunction(h)
    THEN [R EXCEPT !.async = [Index(R.async, k) EXCEPT ![k] = AppendHandler(@, h)]]
    ELSE [R EXCEPT !.sync = [Index(R.sync, k) EXCEPT ![k] = AppendHandler(@, h)]]

RECURSIVE RegisterMethods(_, _)
RegisterMethods(R, ms) ==
    IF ms = <<>> THEN R
    ELSE RegisterMethods(RegisterMethod(R, Head(ms)), Tail(ms))

register(R, s) == RegisterMethods(R, Methods(s))

UnregisterMethod(R, h) ==
    LET k  == event_type(h)
        s1 == Index(R.sync, k)
        a1 == Index(R.async, k)
    IN  [sync  |-> IF Member(s1[k], h) THEN [s1 EXCEPT ![k] = RemoveFirst(@, h)] ELSE s1,
         async |-> IF Member(a1[k], h) THEN [a1 EXCEPT ![k] = RemoveFirst(@, h)] ELSE a1]

RECURSIVE UnregisterMethods(_, _)
UnregisterMethods(R, ms) ==
    IF ms = <<>> THEN R
    ELSE UnregisterMethods(UnregisterMethod(R, Head(ms)), Tail(ms))

unregister(R, s) == UnregisterMethods(R, Methods(s))

Registry == [sync |-> subscribers, async |-> async_subscribers]

EmptyRegistry == [sync |-> <<>>, async |-> <<>>]

\* history: the handlers of s become the most recently registered ones
RECURSIVE NoteRegistered(_, _)
NoteRegistered(order, ms) ==
    IF ms = <<>> THEN order
    ELSE NoteRegistered(Append(RemoveAll(order, Head(ms)), Head(ms)), Tail(ms))

(***************************************************************************)
(* The frame of one post / post_async call.                                *)
(***************************************************************************)
\* event_type = type(event): the key the registries are read with is the
\* class of the event itself, not the class it derives from
\* (models/events.py: ERC20TransferEvent(EthereumEvent))
BaseOf(k) == IF k = "ERC20TransferEvent" THEN "EthereumEvent" ELSE k
TypeOf(k) == k

IdleFrame ==
    [pc |-> "idle", mode |-> "none", kind |-> "none", ev |-> 0, idx |-> 0,
     syncLive |-> FALSE, asyncLive |-> FALSE,
     invoked |-> <<>>, snapSync |-> <<>>, snapAsync |-> <<>>,
     reg |-> {}, unreg |-> {}, result |-> "none"]

\* history kept in the frame: the subscribers its handlers registered and
\* unregistered so far
Mutated(d) == d.reg # {} \/ d.unreg # {}

\* The list the sync loop iterates: the registry's own list object when the
\* key existed at the .get(), else a private empty list.
SyncList(d) == IF d.syncLive THEN Get(subscribers, TypeOf(d.kind)) ELSE <<>>
AsyncList(d) == IF d.asyncLive THEN Get(async_subscribers, TypeOf(d.kind)) ELSE <<>>

\* post_async and post have no suspension point in their sync loop; the only
\* await of post_async is the gather of the tasks.
CanYieldAnywhere(d) == TRUE
CanYield(d) == d.pc \in {"idle", "await"}

Free == \A p \in Publishers : CanYield(disp[p])
OthersYielded(p) == \A q \in Publishers \ {p} : CanYield(disp[q])

\* except Exception: the error is logged and the loop goes on
HandlerRaisedPropagates(d) == [d EXCEPT !.pc = "done", !.result = "raised"]
HandlerRaised(d) == d

\* asyncio.gather(*tasks, return_exceptions=True)
GatherReadyOnFirstException(ts) ==
    \/ \A i \in 1..Len(ts) : ts[i].st \in {"done", "failed"}
    \/ \E i \in 1..Len(ts) : ts[i].st = "failed"
GatherReady(ts) == \A i \in 1..Len(ts) : ts[i].st \in {"done", "failed"}

GatherOutcome(ts) == "returned"

\* a task that fails is one result of the gather; its siblings are untouched
TaskFailedCancelsSiblings(ts, i) ==
    [j \in 1..Len(ts) |->
        IF j = i THEN [ts[j] EXCEPT !.st = "failed"]
        ELSE IF ts[j].st = "pending"
             THEN [ts[j] EXCEPT !.st = "cancelled"] ELSE ts[j]]
TaskFailed(ts, i) == [ts EXCEPT ![i].st = "failed"]

(***************************************************************************)
(* Initial state: a freshly constructed bus, no publish in flight.         *)
(***************************************************************************)
BusInit ==
    /\ subscribers = <<>>
    /\ async_subscribers = <<>>
    /\ disp = [p \in Publishers |-> IdleFrame]
    /\ tasks = [p \in Publishers |-> <<>>]
    /\ beginCount = 0
    /\ lastObserved = 0
    /\ prevObserved = 0
    /\ regOrder = <<>>
    /\ unregistered = {}
    /\ raisedIn = {}
    /\ calls = 0

(***************************************************************************)
(* register(subscriber) / unregister(subscriber) called by a task other    *)
(* than a dispatching handler.                                             *)
(***************************************************************************)
Register(s) ==
    /\ Free
    /\ calls < MaxCalls
    /\ LET R == register(Registry, s) IN
        /\ subscribers' = R.sync
        /\ async_subscribers' = R.async
    /\ regOrder' = NoteRegistered(regOrder, Methods(s))
    /\ unregistered' = unregistered \ {s}
    /\ calls' = calls + 1
    /\ UNCHANGED <<disp, tasks, beginCount, lastObserved, prevObserved, raisedIn>>
    /\ UNCHANGED <<listenerVars, batchVars>>

Unregister(s) ==
    /\ Free
    /\ calls < MaxCalls
    /\ LET R == unregister(Registry, s) IN
        /\ subscribers' = R.sync
        /\ async_subscribers' = R.async
    /\ unregistered' = unregistered \cup {s}
    /\ calls' = calls + 1
    /\ UNCHANGED <<disp, tasks, beginCount, lastObserved, prevObserved, regOrder,
                   raisedIn>>
    /\ UNCHANGED <<listenerVars, batchVars>>

(***************************************************************************)
(* post(event) / post_async(event): the lookup of the two lists.           *)
(***************************************************************************)
\* what the lookup leaves in the dict: .get(k, []) creates no key, where
\* d[k] on the defaultdict would
AfterGetItem(d, k) == Index(d, k)
AfterGet(d, k) == d

BeginPost(p, k, mode) ==
    /\ Free
    /\ disp[p].pc = "idle"
    /\ calls < MaxCalls
    /\ calls' = calls + 1
    /\ beginCount' = beginCount + 1
    /\ disp' = [disp EXCEPT ![p] =
                  [IdleFrame EXCEPT
                     !.pc = "sync", !.mode = mode, !.kind = k,
                     !.ev = beginCount + 1,
                     !.syncLive = TypeOf(k) \in DOMAIN subscribers,
                     !.asyncLive = /\ mode = "post_async"
                                   /\ TypeOf(k) \in DOMAIN async_subscribers,
                     !.snapSync = Get(subscribers, TypeOf(k)),
                     !.snapAsync = IF mode = "post_async"
                                   THEN Get(async_subscribers, TypeOf(k)) ELSE <<>>]]
    /\ subscribers' = AfterGet(subscribers, TypeOf(k))
    /\ async_subscribers' = IF mode = "post_async"
                            THEN AfterGet(async_subscribers, TypeOf(k))
                            ELSE async_subscribers
    /\ UNCHANGED <<tasks, lastObserved, prevObserved, regOrder, unregistered, raisedIn>>
    /\ UNCHANGED <<listenerVars, batchVars>>

(***************************************************************************)
(* One turn of `for subscriber in subscribers: try: subscriber(event)`.    *)
(* The list iterator holds an index into the list object itself.           *)
(***************************************************************************)
Observe(d) ==
    /\ lastObserved' = d.ev
    /\ prevObserved' = lastObserved

SyncHandlerReturns(p) ==
    LET d == disp[p] IN
    /\ d.pc = "sync" /\ OthersYielded(p)
    /\ d.idx < Len(SyncList(d))
    /\ disp' = [disp EXCEPT ![p] =
                  [d EXCEPT !.idx = @ + 1,
                            !.invoked = Append(@, SyncList(d)[d.idx + 1])]]
    /\ Observe(d)
    /\ UNCHANGED <<subscribers, async_subscribers, tasks, beginCount,
                   regOrder, unregistered, raisedIn, calls>>
    /\ UNCHANGED <<listenerVars, batchVars>>

SyncHandlerRaises(p) ==
    LET d == disp[p] IN
    /\ d.pc = "sync" /\ OthersYielded(p)
    /\ d.idx < Len(SyncList(d))
    /\ disp' = [disp EXCEPT ![p] =
                  HandlerRaised(
                    [d EXCEPT !.idx = @ + 1,
                              !.invoked = Append(@, SyncList(d)[d.idx + 1])])]
    /\ raisedIn' = raisedIn \cup {d.ev}
    /\ Observe(d)
    /\ UNCHANGED <<subscribers, async_subscribers, tasks, beginCount,
                   regOrder, unregistered, calls>>
    /\ UNCHANGED <<listenerVars, batchVars>>

\* a handler that calls event_bus.register(s) before it returns
SyncHandlerRegisters(p, s) ==
    LET d == disp[p]
        R == register(Registry, s)
    IN
    /\ d.pc = "sync" /\ OthersYielded(p)
    /\ d.idx < Len(SyncList(d))
    /\ calls < MaxCalls
    /\ subscribers' = R.sync
    /\ async_subscribers' = R.async
    /\ regOrder' = NoteRegistered(regOrder, Methods(s))
    /\ unregistered' = unregistered \ {s}
    /\ calls' = calls + 1
    /\ disp' = [disp EXCEPT ![p] =
                  [d EXCEPT !.idx = @ + 1, !.reg = @ \cup {s},
                            !.invoked = Append(@, SyncList(d)[d.idx + 1])]]
    /\ Observe(d)
    /\ UNCHANGED <<tasks, beginCount, raisedIn>>
    /\ UNCHANGED <<listenerVars, batchVars>>

\* a handler that calls event_bus.unregister(s) before it returns
SyncHandlerUnregisters(p, s) ==
    LET d == disp[p]
        R == unregister(Registry, s)
    IN
    /\ d.pc = "sync" /\ OthersYielded(p)
    /\ d.idx < Len(SyncList(d))
    /\ calls < MaxCalls
    /\ subscribers' = R.sync
    /\ async_subscribers' = R.async
    /\ unregistered' = unregistered \cup {s}
    /\ calls' = calls + 1
    /\ disp' = [disp EXCEPT ![p] =
                  [d EXCEPT !.idx = @ + 1, !.unreg = @ \cup {s},
                            !.invoked = Append(@, SyncList(d)[d.idx + 1])]]
    /\ Observe(d)
    /\ UNCHANGED <<tasks, beginCount, regOrder, raisedIn>>
    /\ UNCHANGED <<listenerVars, batchVars>>

(***************************************************************************)
(* The sync loop is exhausted: post returns; post_async creates one task   *)
(* per coroutine handler and awaits their gather, or returns when there    *)
(* is none.                                                                *)
(***************************************************************************)
\* `if async_subscribers:` ... `if tasks:` -- the gather is awaited only
\* when a task was created
AwaitsAlways(al) == TRUE
Awaits(al) == al # <<>>

\* `for subscriber in async_subscribers: tasks.append(create_task(...))`:
\* one task per coroutine handler, none of them started yet
CreateTaskOfFirst(al) == <<[h |-> al[1], st |-> "pending"]>>
CreateTasks(al) == [i \in 1..Len(al) |-> [h |-> al[i], st |-> "pending"]]

SyncPhaseEnds(p) ==
    LET d == disp[p]
        al == AsyncList(d)
    IN
    /\ d.pc = "sync" /\ OthersYielded(p)
    /\ d.idx >= Len(SyncList(d))
    /\ IF d.mode = "post_async" /\ Awaits(al)
       THEN /\ tasks' = [tasks EXCEPT ![p] = CreateTasks(al)]
            /\ disp' = [disp EXCEPT ![p].pc = "await"]
       ELSE /\ tasks' = tasks
            /\ disp' = [disp EXCEPT ![p].pc = "done", ![p].result = "returned"]
    /\ UNCHANGED <<subscribers, async_subscribers, beginCount, lastObserved,
                   prevObserved, regOrder, unregistered, raisedIn, calls>>
    /\ UNCHANGED <<listenerVars, batchVars>>

(***************************************************************************)
(* The tasks of the concurrent group, run by the event loop.               *)
(***************************************************************************)
TaskRuns(p, i, st) ==
    /\ Free
    /\ i \in 1..Len(tasks[p])
    /\ tasks[p][i].st = "pending"
    /\ tasks' = [tasks EXCEPT ![p] =
                   IF st = "failed" THEN TaskFailed(@, i) ELSE [@ EXCEPT ![i].st = st]]
    /\ UNCHANGED <<subscribers, async_subscribers, disp, beginCount, lastObserved,
                   prevObserved, regOrder, unregistered, raisedIn, calls>>
    /\ UNCHANGED <<listenerVars, batchVars>>

GatherReturns(p) ==
    /\ OthersYielded(p)
    /\ disp[p].pc = "await"
    /\ GatherReady(tasks[p])
    /\ disp' = [disp EXCEPT ![p].pc = "done", ![p].result = GatherOutcome(tasks[p])]
    /\ UNCHANGED <<subscribers, async_subscribers, tasks, beginCount, lastObserved,
                   prevObserved, regOrder, unregistered, raisedIn, calls>>
    /\ UNCHANGED <<listenerVars, batchVars>>

\* the call returns (or raises) to the publisher: the frame and its tasks are gone
ReturnToCaller(p) ==
    /\ disp[p].pc = "done"
    /\ disp' = [disp EXCEPT ![p] = IdleFrame]
    /\ tasks' = [tasks EXCEPT ![p] = <<>>]
    /\ UNCHANGED <<subscribers, async_subscribers, beginCount, lastObserved,
                   prevObserved, regOrder, unregistered, raisedIn, calls>>
    /\ UNCHANGED <<listenerVars, batchVars>>

BusNext ==
    \/ \E s \in Subscribers : Register(s)
    \/ \E s \in Subscribers : Unregister(s)
    \/ \E p \in Publishers : \E k \in PublishKinds(p) :
          \E mode \in {"post", "post_async"} : BeginPost(p, k, mode)
    \/ \E p \in Publishers : SyncHandlerReturns(p)
    \/ \E p \in Publishers : SyncHandlerRaises(p)
    \/ \E p \in Publishers : \E s \in Subscribers : SyncHandlerRegisters(p, s)
    \/ \E p \in Publishers : \E s \in Subscribers : SyncHandlerUnregisters(p, s)
    \/ \E p \in Publishers : SyncPhaseEnds(p)
    \/ \E p \in Publishers : \E i \in DOMAIN tasks[p] :
          \E st \in {"done", "failed"} : TaskRuns(p, i, st)
    \/ \E p \in Publishers : GatherReturns(p)
    \/ \E p \in Publishers : ReturnToCaller(p)

(***************************************************************************)
(* EventListenerService.                                                   *)
(* The configured contracts and their events; a pair is <<contract index,  *)
(* event index>>.                                                          *)
(***************************************************************************)
MaxNodeLogs == 2    \* logs the node hands out in one behaviour
MaxStarts == 2      \* start_listening calls that are in the polling loop at once

(***************************************************************************)
(* Hexadecimal text.  The str "0x" + body is the sequence <<"0x", body>>,  *)
(* a str without the prefix is <<body>>.  A HexBytes value is named by the *)
(* hexadecimal digits of its bytes.                                        *)
(***************************************************************************)
Str0x(body) == <<"0x", body>>

\* the class EventSignatures: attribute name -> value
EventSignatures ==
    [ERC20_TRANSFER |->
        Str0x("ddf252ad1be2c89b69c2b068fc378daa952ba7f163c4a11628f55a4df523b3ef"),
     ERC20_APPROVAL |->
        Str0x("8c5be1e5ebec7d5bd14f71427d1e84f3dd0314c0f7b2291e5b200ac8c7c3b925"),
     ERC721_TRANSFER |->
        Str0x("ddf252ad1be2c89b69c2b068fc378daa952ba7f163c4a11628f55a4df523b3ef"),
     ERC721_APPROVAL |->
        Str0x("8c5be1e5ebec7d5bd14f71427d1e84f3dd0314c0f7b2291e5b200ac8c7c3b925"),
     ERC721_APPROVAL_FOR_ALL |->
        Str0x("17307eab39ab6107e8899845ad3d59bd9653f200f220920489ca2b5937696c31"),
     UNISWAP_SWAP |->
        Str0x("0d3648bd0f6ba80134a33ba9275ac585d9d315f0ad8355cddefde31afa28d0e9"),
     UNISWAP_INITIALIZE |->
        Str0x("98636036cb66a9c19a37435efc1e90142190214e8abeb821bdda3f2990dd4c95"),
     UNISWAP_MODIFY_LIQUIDITY |->
        Str0x("3932abb5e2165f7c78ddef6502e29c06225afc2b9a4e51ae1d80f2ed7f6ac1a0")]

\* the configured contracts: two contracts with two events each, one event
\* disabled, one with a further topic
contracts ==
    << [name |-> "USDC",
        address |-> "0xA0b86991c6218b36c1d19D4a2e9Eb0cE3606eB48",
        events |-> << [name |-> "Transfer", enabled |-> TRUE,
                       signature |-> EventSignatures.ERC20_TRANSFER,
                       topics |-> <<>>],
                      [name |-> "Approval", enabled |-> FALSE,
                       signature |-> EventSignatures.ERC20_APPROVAL,
                       topics |-> <<>>] >>],
       [name |-> "PoolManager",
        address |-> "0x000000000004444c5dc75cB358380D2e3dE08A90",
        events |-> << [name |-> "Swap", enabled |-> TRUE,
                       signature |-> EventSignatures.UNISWAP_SWAP,
                       topics |-> <<"0x01">>],
                      [name |-> "Initialize", enabled |-> TRUE,
                       signature |-> EventSignatures.UNISWAP_INITIALIZE,
                       topics |-> <<>>] >>] >>

Pairs == {<<c, e>> : c \in 1..Len(contracts), e \in 1..2}

\* `if event_config.enabled`
EnabledAlways(pair) == TRUE
Enabled(pair) == contracts[pair[1]].events[pair[2]].enabled

\* the pairs in the order start_listening walks them
PairOrder == <<<<1, 1>>, <<1, 2>>, <<2, 1>>, <<2, 2>>>>

None == 0

\* the arguments of asyncio.sleep in the polling loop, in milliseconds
SLEEP_AFTER_SWEEP == 500
SLEEP_AFTER_ERROR == 5000

\* EventSignatures.ERC20_TRANSFER and a topic-0 value no decoder is known for
ERC20_TRANSFER == EventSignatures.ERC20_TRANSFER
OTHER_SIGNATURE == EventSignatures.ERC20_APPROVAL

\* HexBytes.hex() of the hexbytes releases web3 6 installs: "0x" + the digits
HexWithoutPrefix(hb) == <<hb>>
Hex(hb) == Str0x(hb)

\* the HexBytes a node sends for a signature
Bytes(sig) == sig[Len(sig)]

\* the logs a node may return: topic 0 and the number of topics
LogShapes ==
    { [topic0 |-> Bytes(ERC20_TRANSFER), ntopics |-> 3],
      [topic0 |-> Bytes(ERC20_TRANSFER), ntopics |-> 1],
      [topic0 |-> Bytes(OTHER_SIGNATURE), ntopics |-> 1] }

RECURSIVE SeqsUpTo(_, _)
SeqsUpTo(S, n) ==
    IF n = 0 THEN {<<>>}
    ELSE LET shorter == SeqsUpTo(S, n - 1)
         IN  shorter \cup {Append(q, x) : q \in {r \in shorter : Len(r) = n - 1}, x \in S}

(***************************************************************************)
(* _create_event_filter: the node's filter id, or None when eth.filter     *)
(* raises.  _subscribe_to_contract_events records the filters that are     *)
(* truthy.                                                                 *)
(***************************************************************************)
CreateEventFilter(pair, fails, fid) == IF pair \in fails THEN None ELSE fid

\* filter_params: the address and the topics the node is given
FilterParams(pair) ==
    LET contract == contracts[pair[1]]
        event_config == contract.events[pair[2]]
    IN
    [address |-> contract.address,
     topics |-> <<event_config.signature>> \o event_config.topics]

FilterUsableAlways(f) == TRUE
FilterUsable(f) == f # None

RECURSIVE SubscribeFrom(_, _, _, _)
SubscribeFrom(order, fails, fid, acc) ==
    IF order = <<>> THEN acc
    ELSE LET pair == Head(order) IN
         IF ~Enabled(pair) THEN SubscribeFrom(Tail(order), fails, fid, acc)
         ELSE LET f == CreateEventFilter(pair, fails, fid) IN
              SubscribeFrom(Tail(order), fails,
                            IF f = None THEN fid ELSE fid + 1,
                            IF FilterUsable(f)
                            THEN Append(acc, [filter |-> f, pair |-> pair,
                                              filter_params |-> FilterParams(pair)])
                            ELSE acc)

(***************************************************************************)
(* _handle_log_event up to the publish: the event built for a log, or, as  *)
(* kind, the reason none is built.  An event is its kind, its event_name   *)
(* and its raw_data.                                                       *)
(***************************************************************************)
EventKinds == Kinds \cup {"UniswapSwapEvent", "UniswapInitializeEvent",
                          "UniswapModifyLiquidityEvent"}

NoEvent(why, log) == [kind |-> why, event_name |-> "", raw_data |-> log]

\* topics[1] and topics[2] are read without a length check: IndexError
CreateErc20TransferEventLenient(log) ==
    [kind |-> "ERC20TransferEvent", event_name |-> "Transfer", raw_data |-> log]
CreateErc20TransferEvent(log) ==
    IF log.ntopics < 3 THEN NoEvent("decode_failed", log)
    ELSE [kind |-> "ERC20TransferEvent", event_name |-> "Transfer", raw_data |-> log]

CreateUniswapEvent(kind, name, log) ==
    [kind |-> kind, event_name |-> name, raw_data |-> log]

\* the fields the three Uniswap constructors fill in next to the common
\* ones: pool_id and sender come from the topics when the log has them, the
\* rest are the literals the constructor is called with
PoolId(log) == IF log.ntopics > 1 THEN "topics[1].hex()" ELSE "0x"

Sender(log) == IF log.ntopics > 2 THEN "topics[2][-20:]" ELSE "0x0"

CreateUniswapSwapEvent(log) ==
    CreateUniswapEvent("UniswapSwapEvent", "Swap", log)
      @@ [pool_id |-> PoolId(log), sender |-> Sender(log),
          amount_0 |-> 0, amount_1 |-> 0, sqrt_price_x96 |-> 0,
          liquidity |-> 0, tick |-> 0]

CreateUniswapInitializeEvent(log) ==
    CreateUniswapEvent("UniswapInitializeEvent", "Initialize", log)
      @@ [pool_id |-> PoolId(log),
          currency0 |-> "0x0", currency1 |-> "0x0", fee |-> 0,
          tick_spacing |-> 0, hooks |-> "0x0"]

CreateUniswapModifyLiquidityEvent(log) ==
    CreateUniswapEvent("UniswapModifyLiquidityEvent", "ModifyLiquidity", log)
      @@ [pool_id |-> PoolId(log), sender |-> Sender(log),
          tick_lower |-> 0, tick_upper |-> 0, liquidity_delta |-> 0]

CreateGenericEvent(log, pair) ==
    [kind |-> "EthereumEvent",
     event_name |-> contracts[pair[1]].events[pair[2]].name,
     raw_data |-> log]

HandleLog(log, pair, timestampOk) ==
    IF ~timestampOk THEN NoEvent("timestamp_failed", log)
    ELSE LET event_signature == Hex(log.topic0) IN
         IF event_signature = EventSignatures.ERC20_TRANSFER
         THEN CreateErc20TransferEvent(log)
         ELSE IF event_signature = EventSignatures.UNISWAP_SWAP
         THEN CreateUniswapSwapEvent(log)
         ELSE IF event_signature = EventSignatures.UNISWAP_INITIALIZE
         THEN CreateUniswapInitializeEvent(log)
         ELSE IF event_signature = EventSignatures.UNISWAP_MODIFY_LIQUIDITY
         THEN CreateUniswapModifyLiquidityEvent(log)
         ELSE CreateGenericEvent(log, pair)

IdleListener ==
    [pc |-> "idle", idx |-> 0, new_events |-> <<>>, filter_info |-> None, pause |-> 0]

\* except Exception around one filter's poll: log, go on with the next filter
PollRaisedAbortsSweep(f) == [f EXCEPT !.pc = "sleeping", !.new_events = <<>>]
PollRaised(f) == [f EXCEPT !.new_events = <<>>]

\* except Exception in _handle_log_event: log, return to the loop
HandleLogRaisedEndsLoop(f) == [IdleListener EXCEPT !.new_events = f.new_events]
HandleLogRaised(f) == f

\* what post_async hands back to _handle_log_event when a handler raised
PostAsyncResult(handlerRaises) ==
    IF handlerRaises
    THEN HandlerRaised([IdleFrame EXCEPT !.pc = "sync"]).result
    ELSE "none"

\* the sleep that follows a sweep: the short one after the for loop, the long
\* one in the handler of an exception that escaped the for loop
Pause(escaped) == IF escaped THEN SLEEP_AFTER_ERROR ELSE SLEEP_AFTER_SWEEP

\* a sweep at its start: the polls made, the kinds of failure met, and whether
\* the sweep before it met a failing poll and a failing log
NoSweep == [polls |-> <<>>, stopped |-> FALSE, failures |-> {}, prevFailed |-> FALSE]

(***************************************************************************)
(* stop_listening's loop over active_filters: uninstall_filter of each     *)
(* entry inside try / except Exception.  The result is the node's set of   *)
(* installed filters and whether an exception left the loop.               *)
(***************************************************************************)
UninstallRaisedPropagates(r) == [r EXCEPT !.raised = TRUE]
UninstallRaised(r) == r

RECURSIVE UninstallFrom(_, _, _, _)
UninstallFrom(filters, ws, fails, r) ==
    IF filters = <<>> \/ r.raised THEN r
    ELSE LET fid == Head(filters).filter IN
         UninstallFrom(Tail(filters), ws, fails,
                       IF ~ws THEN r
                       ELSE IF fid \in fails THEN UninstallRaised([r EXCEPT !.failed = TRUE])
                       ELSE [r EXCEPT !.installed = @ \ {fid}])

ListenerInit ==
    /\ web3_ws \in BOOLEAN
    /\ active_filters = <<>>
    /\ lst = IdleListener
    /\ installed = {}
    /\ nodeLogs = 0
    /\ sweepLog = NoSweep
    /\ subscribed = [valid |-> FALSE, fails |-> {}, called |-> FALSE, loops |-> 0]
    /\ stopLog = [streak |-> 0, failed |-> FALSE, raised |-> FALSE]

(***************************************************************************)
(* start_listening up to the entry of the polling loop: no suspension      *)
(* point lies between.                                                     *)
(***************************************************************************)
StartListening(fails) ==
    /\ lst.pc = "idle"
    /\ fails \subseteq {pair \in Pairs : Enabled(pair)}
    /\ IF web3_ws
       THEN LET new == SubscribeFrom(PairOrder, fails, Cardinality(installed) + 1, <<>>) IN
            /\ active_filters' = active_filters \o new
            /\ installed' = installed \cup
                              ({new[i].filter : i \in 1..Len(new)} \ {None})
            /\ subscribed' = [valid |-> TRUE, fails |-> fails, called |-> TRUE,
                              loops |-> IF new # <<>> THEN 1 ELSE 0]
       ELSE /\ fails = {}
            /\ subscribed' = [valid |-> FALSE, fails |-> {}, called |-> TRUE,
                              loops |-> 0]
            /\ UNCHANGED <<active_filters, installed>>
    /\ lst' = IF web3_ws /\ active_filters' # <<>>
              THEN [IdleListener EXCEPT !.pc = "sweep"]
              ELSE IdleListener
    /\ sweepLog' = NoSweep
    /\ stopLog' = [streak |-> 0, failed |-> FALSE, raised |-> FALSE]
    /\ UNCHANGED <<web3_ws, nodeLogs>>
    /\ UNCHANGED <<busVars, batchVars>>

(***************************************************************************)
(* One turn of `for filter_info in self.active_filters`: the poll.         *)
(***************************************************************************)
\* get_new_entries: the logs in the order the node sends them, each with the
\* number the node gave it
NewEntries(logs, sent) ==
    [j \in 1..Len(logs) |->
        [topic0 |-> logs[j].topic0, ntopics |-> logs[j].ntopics,
         serial |-> sent + j]]

PollReturns(logs) ==
    LET new_events == NewEntries(logs, nodeLogs) IN
    /\ lst.pc = "sweep"
    /\ lst.idx < Len(active_filters)
    /\ nodeLogs + Len(logs) <= MaxNodeLogs
    /\ nodeLogs' = nodeLogs + Len(logs)
    /\ lst' = [lst EXCEPT !.idx = @ + 1, !.new_events = new_events,
                          !.filter_info = active_filters[lst.idx + 1],
                          !.pc = IF logs = <<>> THEN "sweep" ELSE "logs"]
    /\ sweepLog' = [sweepLog EXCEPT !.polls =
                      Append(@, [filter |-> active_filters[lst.idx + 1].filter,
                                 ok |-> TRUE, logs |-> new_events, did |-> <<>>,
                                 order |-> <<>>])]
    /\ UNCHANGED <<web3_ws, active_filters, installed, subscribed, stopLog>>
    /\ UNCHANGED <<busVars, batchVars>>

PollRaises ==
    /\ lst.pc = "sweep"
    /\ lst.idx < Len(active_filters)
    /\ lst' = PollRaised([lst EXCEPT !.idx = @ + 1,
                                     !.filter_info = active_filters[lst.idx + 1]])
    /\ sweepLog' = [sweepLog EXCEPT
                      !.polls =
                         Append(@, [filter |-> active_filters[lst.idx + 1].filter,
                                    ok |-> FALSE, logs |-> <<>>, did |-> <<>>,
                                    order |-> <<>>]),
                      !.failures = @ \cup {"poll"}]
    /\ UNCHANGED <<web3_ws, active_filters, installed, nodeLogs, subscribed, stopLog>>
    /\ UNCHANGED <<busVars, batchVars>>

(***************************************************************************)
(* One turn of `for log_entry in new_events: await _handle_log_event`.     *)
(* post_async suspends the loop only when it has tasks to await.  A        *)
(* handler that raises is the bus's affair: post_async returns.            *)
(***************************************************************************)
\* `for log_entry in new_events`: the entry the next turn takes
LastLogEntry(new_events) == Len(new_events)
NextLogEntry(new_events) == 1

\* the entries the for loop has yet to take once it has taken entry `at`
KeptEntries(new_events, at) == new_events
Remaining(new_events, at) ==
    SubSeq(new_events, 1, at - 1) \o SubSeq(new_events, at + 1, Len(new_events))

HandleLogEvent(timestampOk, handlerRaises) ==
    LET at == NextLogEntry(lst.new_events)
        log == lst.new_events[at]
        out == HandleLog(log, lst.filter_info.pair, timestampOk)
        rest == Remaining(lst.new_events, at)
        n == Len(sweepLog.polls)
        posted == out.kind \in EventKinds
        raised == ~posted \/ PostAsyncResult(handlerRaises) = "raised"
        next == [lst EXCEPT
                   !.new_events = rest,
                   !.pc = IF posted /\ Get(async_subscribers, out.kind) # <<>>
                          THEN "publishing"
                          ELSE IF rest = <<>> THEN "sweep" ELSE "logs"]
        failure == IF out.kind = "timestamp_failed" THEN {"timestamp"}
                   ELSE IF out.kind = "decode_failed" THEN {"decode"}
                   ELSE IF handlerRaises THEN {"handler"}
                   ELSE {}
    IN
    /\ lst.pc = "logs"
    /\ handlerRaises =>
          /\ posted
          /\ Get(subscribers, out.kind) # <<>> \/ Get(async_subscribers, out.kind) # <<>>
    /\ lst' = IF raised THEN HandleLogRaised(next) ELSE next
    /\ sweepLog' = [sweepLog EXCEPT !.polls[n].did = Append(@, out.kind),
                                    !.polls[n].order = Append(@, log.serial),
                                    !.failures = @ \cup failure]
    /\ UNCHANGED <<web3_ws, active_filters, installed, nodeLogs, subscribed, stopLog>>
    /\ UNCHANGED <<busVars, batchVars>>

PostAsyncReturns ==
    /\ lst.pc = "publishing"
    /\ lst' = [lst EXCEPT !.pc = IF lst.new_events = <<>> THEN "sweep" ELSE "logs"]
    /\ UNCHANGED <<web3_ws, active_filters, installed, nodeLogs, sweepLog, subscribed,
                   stopLog>>
    /\ UNCHANGED <<busVars, batchVars>>

\* the for loop is exhausted: await asyncio.sleep(0.5)
SweepEnds ==
    /\ lst.pc = "sweep"
    /\ lst.idx >= Len(active_filters)
    /\ lst' = [lst EXCEPT !.pc = "sleeping", !.pause = Pause(FALSE)]
    /\ UNCHANGED <<web3_ws, active_filters, installed, nodeLogs, sweepLog, subscribed,
                   stopLog>>
    /\ UNCHANGED <<busVars, batchVars>>

\* the sleep is over: the next turn of `while True`
NextSweep ==
    /\ lst.pc = "sleeping"
    /\ lst' = [IdleListener EXCEPT !.pc = "sweep"]
    /\ sweepLog' = [NoSweep EXCEPT !.prevFailed =
                     "poll" \in sweepLog.failures /\ sweepLog.failures # {"poll"}]
    /\ UNCHANGED <<web3_ws, active_filters, installed, nodeLogs, subscribed, stopLog>>
    /\ UNCHANGED <<busVars, batchVars>>

\* self.active_filters.clear(): the list object the loop iterates is emptied
\* in place
ClearSkipped(filters) == filters
Clear(filters) == <<>>

(***************************************************************************)
(* stop_listening, called by another task while the loop is suspended or   *)
(* not running: uninstall each filter (a failure is logged), clear the     *)
(* list.                                                                   *)
(***************************************************************************)
StopListening(fails) ==
    LET r == UninstallFrom(active_filters, web3_ws, fails,
                           [installed |-> installed, failed |-> FALSE, raised |-> FALSE])
    IN
    /\ lst.pc \in {"idle", "publishing", "sleeping"}
    /\ fails \subseteq {active_filters[i].filter : i \in 1..Len(active_filters)}
    /\ web3_ws \/ fails = {}
    /\ installed' = r.installed
    /\ active_filters' = IF r.raised THEN active_filters ELSE Clear(active_filters)
    /\ sweepLog' = [sweepLog EXCEPT !.stopped = TRUE]
    /\ subscribed' = [valid |-> FALSE, fails |-> {}, called |-> FALSE,
                      loops |-> subscribed.loops]
    /\ stopLog' = [streak |-> IF stopLog.streak < 2 THEN stopLog.streak + 1 ELSE 2,
                   failed |-> stopLog.failed \/ r.failed,
                   raised |-> r.raised]
    /\ UNCHANGED <<web3_ws, lst, nodeLogs>>
    /\ UNCHANGED <<busVars, batchVars>>

(***************************************************************************)
(* start_listening called by a further task while an earlier call is       *)
(* suspended in its polling loop: the subscription phase runs again on the *)
(* same list, then the call enters a polling loop of its own.  That loop   *)
(* shares the filter list and the node with the first: its polls take logs *)
(* from the node.                                                          *)
(***************************************************************************)
SecondStartListening(fails) ==
    /\ lst.pc \in {"publishing", "sleeping"}
    /\ subscribed.loops < MaxStarts
    /\ web3_ws
    /\ fails \subseteq {pair \in Pairs : Enabled(pair)}
    /\ LET new == SubscribeFrom(PairOrder, fails, Cardinality(installed) + 1, <<>>) IN
       /\ active_filters' = active_filters \o new
       /\ installed' = installed \cup
                         ({new[i].filter : i \in 1..Len(new)} \ {None})
    /\ subscribed' = [subscribed EXCEPT
                        !.loops = IF active_filters' # <<>> THEN @ + 1 ELSE @]
    /\ UNCHANGED <<web3_ws, lst, nodeLogs, sweepLog, stopLog>>
    /\ UNCHANGED <<busVars, batchVars>>

SecondLoopPolls(logs) ==
    /\ lst.pc \in {"publishing", "sleeping"}
    /\ subscribed.loops > 1
    /\ active_filters # <<>>
    /\ logs # <<>>
    /\ nodeLogs + Len(logs) <= MaxNodeLogs
    /\ nodeLogs' = nodeLogs + Len(logs)
    /\ UNCHANGED <<web3_ws, active_filters, lst, installed, sweepLog, subscribed,
                   stopLog>>
    /\ UNCHANGED <<busVars, batchVars>>

\* the steps of the polling loop
LoopStep ==
    \/ \E logs \in SeqsUpTo(LogShapes, MaxNodeLogs) : PollReturns(logs)
    \/ PollRaises
    \/ \E ok, handlerRaises \in BOOLEAN : HandleLogEvent(ok, handlerRaises)
    \/ PostAsyncReturns
    \/ SweepEnds
    \/ NextSweep

ListenerNext ==
    \/ \E fails \in SUBSET Pairs : StartListening(fails)
    \/ \E logs \in SeqsUpTo(LogShapes, MaxNodeLogs) : PollReturns(logs)
    \/ PollRaises
    \/ \E ok, handlerRaises \in BOOLEAN : HandleLogEvent(ok, handlerRaises)
    \/ PostAsyncReturns
    \/ SweepEnds
    \/ NextSweep
    \/ \E fails \in SUBSET installed : StopListening(fails)

(***************************************************************************)
(* Decoding at the level of bytes and characters.                          *)
(* bytes / HexBytes: a sequence of integers 0..255.  str: a sequence of    *)
(* one-character strings.  int: Python integers are unbounded; an integer  *)
(* is its hexadecimal numeral without leading zeros, a sequence of         *)
(* characters (zero is the empty numeral).                                 *)
(***************************************************************************)
MaxBatch == 3       \* events in one batch handed to transform_erc20_events

HexChars == <<"0", "1", "2", "3", "4", "5", "6", "7",
              "8", "9", "a", "b", "c", "d", "e", "f">>

DigitValue(c) == CHOOSE v \in 0..15 : HexChars[v + 1] = c

IsHexChar(c) == \E v \in 0..15 : HexChars[v + 1] = c

\* bytes.hex(): two characters for each byte
HexDigits(bytes) ==
    [i \in 1..(2 * Len(bytes)) |->
        IF i % 2 = 1 THEN HexChars[(bytes[(i + 1) \div 2] \div 16) + 1]
                     ELSE HexChars[(bytes[i \div 2] % 16) + 1]]

Prefix0x == <<"0", "x">>

\* HexBytes.hex(), character by character
HexText(bytes) == Prefix0x \o HexDigits(bytes)

\* the slice s[:n]
FirstN(s, n) == IF Len(s) <= n THEN s ELSE SubSeq(s, 1, n)

\* the slice s[-n:]
LastN(s, n) == IF Len(s) <= n THEN s ELSE SubSeq(s, Len(s) - n + 1, Len(s))

\* str.startswith('0x')
StartsWith0x(s) == Len(s) >= 2 /\ s[1] = "0" /\ s[2] = "x"

RECURSIVE StripZeros(_)
StripZeros(ds) ==
    IF ds # <<>> /\ Head(ds) = "0" THEN StripZeros(Tail(ds)) ELSE ds

\* int(s, 16): the integer of the digits, ValueError when there is none
ParseInt16Wrapping64(s) ==
    LET ds == IF StartsWith0x(s) THEN SubSeq(s, 3, Len(s)) ELSE s IN
    IF ds = <<>> \/ \E i \in 1..Len(ds) : ~IsHexChar(ds[i])
    THEN [status |-> "ValueError", value |-> <<>>]
    ELSE [status |-> "ok", value |-> StripZeros(LastN(ds, 16))]
ParseInt16(s) ==
    LET ds == IF StartsWith0x(s) THEN SubSeq(s, 3, Len(s)) ELSE s IN
    IF ds = <<>> \/ \E i \in 1..Len(ds) : ~IsHexChar(ds[i])
    THEN [status |-> "ValueError", value |-> <<>>]
    ELSE [status |-> "ok", value |-> StripZeros(ds)]

(***************************************************************************)
(* str(int) and decimal.Decimal.  str(value_int) is the decimal numeral of *)
(* the integer: a sequence of digits 0..9 without leading zeros (zero is   *)
(* the empty numeral).  A Decimal is a coefficient and an exponent;        *)
(* Decimal(text) is exact, and every arithmetic result is rounded to the   *)
(* precision of the context, which transform_data.py never changes.        *)
(***************************************************************************)
getcontext == [prec |-> 28, rounding |-> "ROUND_HALF_EVEN"]

\* the element of a one-element set: The({e : x \in {v}}) is e for x = v,
\* with v computed once
The(S) == CHOOSE x \in S : TRUE

\* ls * 16 + carry on limbs, least significant limb last
RECURSIVE MulAdd(_, _)
MulAdd(ls, carry) ==
    IF ls = <<>> THEN IF carry = 0 THEN <<>> ELSE <<carry>>
    ELSE LET v == ls[Len(ls)] * 16 + carry IN
         MulAdd(SubSeq(ls, 1, Len(ls) - 1), v \div 1000000) \o <<v % 1000000>>

\* the limbs of a hexadecimal numeral, digit after digit
RECURSIVE LimbsFrom(_, _)
LimbsFrom(acc, numeral) ==
    IF numeral = <<>> THEN acc
    ELSE LET next == MulAdd(acc, DigitValue(Head(numeral))) IN
         IF Len(next) >= 0 THEN LimbsFrom(next, Tail(numeral)) ELSE next

RECURSIVE StripZeroDigits(_)
StripZeroDigits(ds) ==
    IF ds # <<>> /\ Head(ds) = 0 THEN StripZeroDigits(Tail(ds)) ELSE ds

\* the digits of limbs, without leading zeros
DigitsOfLimbs(ls) ==
    StripZeroDigits(
        [i \in 1..(6 * Len(ls)) |->
            LET l == ls[((i - 1) \div 6) + 1]
                k == (i - 1) % 6
            IN (l \div (CASE k = 0 -> 100000 [] k = 1 -> 10000
                          [] k = 2 -> 1000 [] k = 3 -> 100
                          [] k = 4 -> 10 [] OTHER -> 1)) % 10])

\* str(int(s, 16)): the decimal numeral of a hexadecimal one
StrOfInt(numeral) == DigitsOfLimbs(LimbsFrom(<<>>, numeral))

Zeros(n) == [i \in 1..n |-> 0]

\* a + b on numerals: a place takes a carry when a less significant place
\* overflows and every place between the two holds 9
AddNumerals(a, b) ==
    LET n == (IF Len(a) > Len(b) THEN Len(a) ELSE Len(b)) + 1
        x == Zeros(n - Len(a)) \o a
        y == Zeros(n - Len(b)) \o b
        carry(i) == IF \E k \in (i + 1)..n :
                          /\ x[k] + y[k] >= 10
                          /\ \A m \in (i + 1)..(k - 1) : x[m] + y[m] = 9
                    THEN 1 ELSE 0
    IN
    StripZeroDigits([i \in 1..n |-> (x[i] + y[i] + carry(i)) % 10])

\* a >= b on numerals
NumeralGeq(a, b) ==
    \/ Len(a) > Len(b)
    \/ /\ Len(a) = Len(b)
       /\ LET differ == {i \in 1..Len(a) : a[i] # b[i]} IN
          \/ differ = {}
          \/ LET first == CHOOSE i \in differ : \A j \in differ : i <= j IN
             a[first] > b[first]

\* Decimal(str(value_int))
DecimalOfInt(ds) == [digits |-> ds, exp |-> 0]

\* the integer a Decimal stands for, as a numeral
IntOfDecimal(d) == IF d.digits = <<>> THEN <<>> ELSE d.digits \o Zeros(d.exp)

\* the context's rounding of an exact result: the first prec digits, the
\* last of them moved up when the rest is above one half, or is one half and
\* the last digit is odd
RoundToContext(ds) ==
    IF Len(ds) <= getcontext.prec THEN DecimalOfInt(ds)
    ELSE LET kept == SubSeq(ds, 1, getcontext.prec)
             rest == SubSeq(ds, getcontext.prec + 1, Len(ds))
             more == \E i \in 2..Len(rest) : rest[i] # 0
             up == \/ rest[1] > 5
                   \/ rest[1] = 5 /\ (more \/ kept[Len(kept)] % 2 = 1)
         IN
         The({ IF Len(coef) > getcontext.prec
               THEN [digits |-> SubSeq(coef, 1, getcontext.prec),
                     exp |-> Len(rest) + 1]
               ELSE [digits |-> coef, exp |-> Len(rest)] :
                 coef \in {IF up THEN AddNumerals(kept, <<1>>) ELSE kept} })

\* Decimal.__add__ of two non-negative integers
DecimalAdd(a, b) ==
    RoundToContext(AddNumerals(IntOfDecimal(a), IntOfDecimal(b)))

\* Web3.to_checksum_address of a bytes value: the text of the 20 bytes (the
\* case of the letters, which carries the checksum, is left out)
ToChecksumAddress(bytes) ==
    IF Len(bytes) = 20
    THEN [status |-> "ok", value |-> HexText(bytes)]
    ELSE [status |-> "ValueError", value |-> <<>>]

NoTransfer(why) ==
    [status |-> why, from_address |-> <<>>, to_address |-> <<>>, value |-> <<>>,
     value_decimal |-> DecimalOfInt(<<>>), timestamp |-> <<>>]

(***************************************************************************)
(* _create_erc20_transfer_event: the fields decoded from a log whose       *)
(* topics and data are HexBytes.                                           *)
(***************************************************************************)
DecodeErc20Transfer(log) ==
    LET topics == log.topics
        data == log.data
    IN
    IF Len(topics) < 3 THEN NoTransfer("IndexError")
    ELSE The({ IF from_address.status # "ok" THEN NoTransfer(from_address.status)
               ELSE IF to_address.status # "ok" THEN NoTransfer(to_address.status)
               ELSE IF value.status # "ok" THEN NoTransfer(value.status)
               ELSE [status |-> "ok",
                     from_address |-> from_address.value,
                     to_address |-> to_address.value,
                     value |-> value.value,
                     value_decimal |-> DecimalOfInt(StrOfInt(value.value)),
                     timestamp |-> <<>>] :
                 from_address \in {ToChecksumAddress(LastN(topics[2], 20))},
                 to_address \in {ToChecksumAddress(LastN(topics[3], 20))},
                 value \in {IF data # <<>> THEN ParseInt16(HexText(data))
                            ELSE [status |-> "ok", value |-> <<>>]} })

(***************************************************************************)
(* A stored log is a dict: the record of the keys it has.                  *)
(***************************************************************************)
\* dict.get(k, default)
DictGet(d, k, default) == IF k \in DOMAIN d THEN d[k] ELSE default

(***************************************************************************)
(* DataTransformer._transform_erc20_transfer: the fields decoded from a    *)
(* stored log, whose topics and data are str.  topics[0], which is only    *)
(* compared as a whole, is the <<"0x", body>> form of EventSignatures.     *)
(* The timestamp is <<hour>> for the ISO text, <<>> for None.              *)
(***************************************************************************)
TransformErc20Transfer(event) ==
    LET topics == DictGet(event, "topics", <<>>)
        data == DictGet(event, "data", Prefix0x)
        timestamp == DictGet(event, "timestamp", None)
        from_address == IF Len(topics) > 1 THEN Prefix0x \o LastN(topics[2], 40)
                        ELSE <<"0", "x", "0">>
        to_address == IF Len(topics) > 2 THEN Prefix0x \o LastN(topics[3], 40)
                      ELSE <<"0", "x", "0">>
        value_hex == IF StartsWith0x(data) THEN data ELSE Prefix0x \o data
    IN
    The({ IF value_int.status # "ok" THEN NoTransfer(value_int.status)
          ELSE [status |-> "ok",
                from_address |-> from_address,
                to_address |-> to_address,
                value |-> value_int.value,
                value_decimal |-> DecimalOfInt(StrOfInt(value_int.value)),
                timestamp |-> IF timestamp # None
                              THEN <<timestamp \div 3600>> ELSE <<>>] :
            value_int \in {IF value_hex # Prefix0x THEN ParseInt16(value_hex)
                           ELSE [status |-> "ok", value |-> <<>>]} })

\* DataTransformer._is_erc20_transfer
IsErc20Transfer(event) ==
    LET topics == DictGet(event, "topics", <<>>) IN
    Len(topics) > 0 /\ topics[1] = EventSignatures.ERC20_TRANSFER

(***************************************************************************)
(* DataTransformer.transform_erc20_events.  A dict is the function from    *)
(* its keys.                                                               *)
(***************************************************************************)
\* defaultdict(int)[k] += v
AddTo(d, k, v) ==
    IF k \in DOMAIN d THEN [d EXCEPT ![k] = @ + v] ELSE d @@ (k :> v)

\* defaultdict(Decimal)[k] += v
AddDecimalTo(d, k, v) ==
    IF k \in DOMAIN d THEN [d EXCEPT ![k] = DecimalAdd(@, v)]
    ELSE d @@ (k :> DecimalAdd(DecimalOfInt(<<>>), v))

\* sorted(..., key=value_decimal, reverse=True): stable, largest first
RECURSIVE InsertByValue(_, _)
InsertByValue(sorted, te) ==
    IF sorted = <<>> THEN <<te>>
    ELSE IF NumeralGeq(Head(sorted).value_decimal.digits, te.value_decimal.digits)
         THEN <<Head(sorted)>> \o InsertByValue(Tail(sorted), te)
         ELSE <<te>> \o sorted

RECURSIVE SortedByValue(_)
SortedByValue(tes) ==
    IF tes = <<>> THEN <<>>
    ELSE InsertByValue(SortedByValue(SubSeq(tes, 1, Len(tes) - 1)), tes[Len(tes)])

EmptySummary ==
    [status |-> "ok",
     events |-> <<>>,
     total_transfers |-> 0,
     total_volume |-> DecimalOfInt(<<>>),
     unique_addresses |-> {},
     hourly_volume |-> <<>>,
     address_activity |-> <<>>]

\* one turn of `for event in events`
TransformOne(acc, event) ==
    IF acc.status # "ok" THEN acc
    ELSE IF ~IsErc20Transfer(event) THEN acc
    ELSE The({
         IF te.status # "ok" THEN [acc EXCEPT !.status = te.status]
         ELSE IF te.timestamp = <<>> THEN [acc EXCEPT !.status = "TypeError"]
         ELSE [acc EXCEPT
                 !.events = Append(@, te),
                 !.total_transfers = @ + 1,
                 !.total_volume = DecimalAdd(@, te.value_decimal),
                 !.unique_addresses = @ \cup {te.from_address, te.to_address},
                 !.hourly_volume = AddDecimalTo(@, te.timestamp[1], te.value_decimal),
                 !.address_activity =
                     AddTo(AddTo(@, te.from_address, 1), te.to_address, 1)] :
           te \in {TransformErc20Transfer(event)} })

RECURSIVE TransformFrom(_, _)
TransformFrom(acc, events) ==
    IF events = <<>> THEN acc
    ELSE The({ TransformFrom(next, Tail(events)) :
                  next \in {TransformOne(acc, Head(events))} })

TransformErc20Events(events) ==
    The({ [status |-> acc.status,
           events |-> acc.events,
           total_transfers |-> acc.total_transfers,
           total_volume |-> acc.total_volume,
           unique_addresses |-> Cardinality(acc.unique_addresses),
           top_transfers |-> FirstN(SortedByValue(acc.events), 10),
           hourly_volume |-> acc.hourly_volume,
           address_activity |-> acc.address_activity] :
            acc \in {TransformFrom(EmptySummary, events)} })

(***************************************************************************)
(* DataTransformer.transform_uniswap_events.  A log without topics has the *)
(* signature None, written <<>>; a missing pool_id is <<>> as well.        *)
(***************************************************************************)
UniswapSignatures ==
    {EventSignatures.UNISWAP_SWAP,
     EventSignatures.UNISWAP_INITIALIZE,
     EventSignatures.UNISWAP_MODIFY_LIQUIDITY}

EventSignatureOf(event) ==
    LET topics == DictGet(event, "topics", <<>>) IN
    IF topics # <<>> THEN topics[1] ELSE <<>>

\* _transform_uniswap_swap, _transform_uniswap_initialize,
\* _transform_uniswap_liquidity
TransformUniswap(event, kind) ==
    LET topics == DictGet(event, "topics", <<>>) IN
    [pool_id |-> IF Len(topics) > 1 THEN topics[2] ELSE <<>>,
     event_type |-> kind]

\* the transformed logs of one signature, in input order
RECURSIVE TransformedOf(_, _, _)
TransformedOf(events, signature, kind) ==
    IF events = <<>> THEN <<>>
    ELSE (IF EventSignatureOf(Head(events)) = signature
          THEN <<TransformUniswap(Head(events), kind)>> ELSE <<>>)
         \o TransformedOf(Tail(events), signature, kind)

TransformUniswapEvents(events) ==
    The({ LET all == swap_events \o initialize_events \o liquidity_events IN
          [status |-> "ok",
           swap_events |-> swap_events,
           initialize_events |-> initialize_events,
           liquidity_events |-> liquidity_events,
           summary |-> [total_swaps |-> Len(swap_events),
                        total_initializations |-> Len(initialize_events),
                        total_liquidity_changes |-> Len(liquidity_events),
                        unique_pools |->
                            Cardinality({all[i].pool_id : i \in 1..Len(all)})]] :
            swap_events \in
                {TransformedOf(events, EventSignatures.UNISWAP_SWAP, "swap")},
            initialize_events \in
                {TransformedOf(events, EventSignatures.UNISWAP_INITIALIZE,
                               "initialize")},
            liquidity_events \in
                {TransformedOf(events, EventSignatures.UNISWAP_MODIFY_LIQUIDITY,
                               "modify_liquidity")} })

\* DataTransformer._transform_generic_events
TransformGenericEvents(events) ==
    [status |-> "ok", events |-> events, event_count |-> Len(events)]

(***************************************************************************)
(* DataTransformer.transform_block_data and _get_utilization_status.  The  *)
(* utilization (gasUsed / gasLimit) * 100 is kept as the fraction          *)
(* num / den; the float the code computes orders against 50, 80 and 95 as  *)
(* the fraction does while gasLimit stays below 10^15.                     *)
(***************************************************************************)
Below(utilization, percent) == utilization.num < percent * utilization.den

Above(utilization, percent) == utilization.num > percent * utilization.den

GetUtilizationStatusExclusive(utilization) ==
    IF ~Above(utilization, 50) THEN "low"
    ELSE IF ~Above(utilization, 80) THEN "moderate"
    ELSE IF ~Above(utilization, 95) THEN "high"
    ELSE "critical"
GetUtilizationStatus(utilization) ==
    IF Below(utilization, 50) THEN "low"
    ELSE IF Below(utilization, 80) THEN "moderate"
    ELSE IF Below(utilization, 95) THEN "high"
    ELSE "critical"

EmptyDict == [k \in {} |-> None]

TransformBlockData(block_data) ==
    LET raw_block == DictGet(block_data, "raw_block_data", EmptyDict)
        gasUsed == DictGet(raw_block, "gasUsed", 0)
        gasLimit == DictGet(raw_block, "gasLimit", 1)
        gas_utilization == [num |-> 100 * gasUsed, den |-> gasLimit]
    IN
    IF gasLimit = 0 THEN [status |-> "ZeroDivisionError"]
    ELSE [status |-> "ok",
          gas_used |-> DictGet(raw_block, "gasUsed", None),
          gas_limit |-> DictGet(raw_block, "gasLimit", None),
          utilization_status |-> GetUtilizationStatus(gas_utilization),
          is_full_block |-> Above(gas_utilization, 95)]

(***************************************************************************)
(* DataTransformer.transform_extracted_data.  extracted_data['events'] is  *)
(* the sequence of its items (name, events), in the order of the dict.  A  *)
(* call that raises has no value: its result is the exception alone.       *)
(***************************************************************************)
\* events[:5]
SampleAll(events) == events
Sample(events) == FirstN(events, 5)

\* DataTransformer._is_erc20_contract
IsErc20Contract(events) ==
    \E i \in 1..Len(Sample(events)) : IsErc20Transfer(Sample(events)[i])

\* any(event.get('topics', [{}])[0] in uniswap_signatures ...): the first
\* entry that matches ends the search; before it, an entry without the key
\* gives the dict {}, which cannot be looked up in a set, and an entry with
\* an empty list has no element 0
RECURSIVE AnyUniswapSignature(_)
AnyUniswapSignature(events) ==
    IF events = <<>> THEN "False"
    ELSE IF "topics" \notin DOMAIN Head(events) THEN "TypeError"
    ELSE IF Head(events).topics = <<>> THEN "IndexError"
    ELSE IF Head(events).topics[1] \in UniswapSignatures THEN "True"
    ELSE AnyUniswapSignature(Tail(events))

\* DataTransformer._is_uniswap_contract
IsUniswapContract(events) == AnyUniswapSignature(Sample(events))

\* `if not contract_events: continue`
SkipNoContract(contract_events) == FALSE
SkipContract(contract_events) == contract_events = <<>>

\* lines 189-196: the transform of one contract's batch
TransformContract(contract_events) ==
    IF IsErc20Contract(contract_events)
    THEN TransformErc20Events(contract_events)
    ELSE The({ IF uniswap = "True" THEN TransformUniswapEvents(contract_events)
               ELSE IF uniswap = "False"
               THEN TransformGenericEvents(contract_events)
               ELSE [status |-> uniswap] :
                 uniswap \in {IsUniswapContract(contract_events)} })

\* `for contract_name, contract_events in events_data.items()`
RECURSIVE TransformContractsFrom(_, _)
TransformContractsFrom(acc, items) ==
    IF items = <<>> \/ acc.status # "ok" THEN acc
    ELSE IF SkipContract(Head(items).events)
         THEN TransformContractsFrom(acc, Tail(items))
         ELSE The({ IF one.status # "ok" THEN [acc EXCEPT !.status = one.status]
                    ELSE TransformContractsFrom(
                             [acc EXCEPT !.transformed_events =
                                             @ @@ (Head(items).name :> one)],
                             Tail(items)) :
                      one \in {TransformContract(Head(items).events)} })

\* the event count _generate_analytics takes from one contract's entry
EventCountByKey(contract_data) == DictGet(contract_data, "event_count", 0)
EventCount(contract_data) ==
    IF "events" \in DOMAIN contract_data THEN Len(contract_data.events)
    ELSE IF "swap_events" \in DOMAIN contract_data
    THEN Len(contract_data.swap_events) + Len(contract_data.initialize_events)
           + Len(contract_data.liquidity_events)
    ELSE DictGet(contract_data, "event_count", 0)

RECURSIVE SumOver(_, _)
SumOver(f, keys) ==
    IF keys = {} THEN 0
    ELSE LET k == CHOOSE x \in keys : TRUE IN f[k] + SumOver(f, keys \ {k})

\* DataTransformer._generate_analytics
GenerateAnalytics(transformed_events) ==
    LET event_distribution ==
            [name \in DOMAIN transformed_events |->
                EventCount(transformed_events[name])]
    IN
    [total_events_processed |->
         SumOver(event_distribution, DOMAIN event_distribution),
     contracts_analyzed |-> Cardinality(DOMAIN transformed_events),
     event_distribution |-> event_distribution]

TransformExtractedData(extracted_data) ==
    The({ IF transformed_blocks.status # "ok"
          THEN [status |-> transformed_blocks.status]
          ELSE IF transformed.status # "ok" THEN [status |-> transformed.status]
          ELSE [status |-> "ok",
                metadata |->
                    [original_extraction_timestamp |->
                         DictGet(extracted_data, "extraction_timestamp", None)],
                transformed_blocks |-> transformed_blocks,
                transformed_events |-> transformed.transformed_events,
                analytics |-> GenerateAnalytics(transformed.transformed_events)] :
            transformed_blocks \in
                {IF "latest_block" \in DOMAIN extracted_data
                 THEN TransformBlockData(extracted_data.latest_block)
                 ELSE [status |-> "ok"]},
            transformed \in
                {TransformContractsFrom(
                     [status |-> "ok", transformed_events |-> EmptyDict],
                     DictGet(extracted_data, "events", <<>>))} })

(***************************************************************************)
(* The logs the functions are run on.  A Transfer log carries the padded   *)
(* sender and recipient as topics 1 and 2 and the value, big-endian on 32  *)
(* bytes, as data.                                                         *)
(***************************************************************************)
Addresses ==
    { [i \in 1..20 |-> 0],
      [i \in 1..20 |-> 255],
      [i \in 1..20 |-> 12 * i + 1] }

Numerals ==
    { <<>>,
      <<"1">>,
      <<"1">> \o [i \in 1..16 |-> "0"],
      <<"1">> \o [i \in 1..15 |-> "0"] \o <<"1">>,
      [i \in 1..64 |-> "f"] }

Pad(bytes, width) == [i \in 1..(width - Len(bytes)) |-> 0] \o bytes

PadText(digits, width) == [i \in 1..(width - Len(digits)) |-> "0"] \o digits

BytesOfText(digits) ==
    [i \in 1..(Len(digits) \div 2) |->
        16 * DigitValue(digits[2 * i - 1]) + DigitValue(digits[2 * i])]

\* the log as the node sends it (HexBytes); the decoder does not read topic 0
NodeTransferLog(A, B, V, empty) ==
    [topics |-> <<BytesOfText(PadText(<<>>, 64)), Pad(A, 32), Pad(B, 32)>>,
     data |-> IF empty THEN <<>> ELSE BytesOfText(PadText(V, 64))]

\* the log as the extract phase stores it (str)
StoredTransferLog(A, B, V, data, timestamp) ==
    [topics |-> <<EventSignatures.ERC20_TRANSFER,
                  HexText(Pad(A, 32)), HexText(Pad(B, 32))>>,
     data |-> IF data = "full" THEN Prefix0x \o PadText(V, 64)
              ELSE IF data = "0x" THEN Prefix0x
              ELSE <<>>,
     timestamp |-> timestamp]

\* a stored log cut down to its first n topics
Truncated(event, n) == [event EXCEPT !.topics = SubSeq(@, 1, n)]

StoredApprovalLog ==
    [topics |-> <<EventSignatures.ERC20_APPROVAL>>, data |-> Prefix0x, timestamp |-> 3600]

\* the Transfer log of sample_data/sample_extracted_data.json: a value of
\* 0x2faf080 and no timestamp key
SampleTransferLog ==
    [topics |-> <<EventSignatures.ERC20_TRANSFER,
                  HexText(Pad([i \in 1..20 |-> 0], 32)),
                  HexText(Pad([i \in 1..20 |-> 12 * i + 1], 32))>>,
     data |-> Prefix0x \o PadText(<<"2", "f", "a", "f", "0", "8", "0">>, 64)]

\* 2^96, an amount of 29 digits
LargeValue == <<"1">> \o [i \in 1..24 |-> "0"]

BatchEvents ==
    LET a == [i \in 1..20 |-> 0]
        b == [i \in 1..20 |-> 255]
        c == [i \in 1..20 |-> 12 * i + 1]
    IN
    { StoredTransferLog(a, b, <<"1">>, "full", 3600),
      StoredTransferLog(b, c, <<"1", "0">>, "full", 7200),
      StoredTransferLog(c, b, <<"1">>, "full", 7200),
      StoredTransferLog(a, c, LargeValue, "full", 3600),
      StoredTransferLog(b, b, <<"3">>, "full", 3600),
      Truncated(StoredTransferLog(c, a, <<"1">>, "full", 3600), 1),
      Truncated(StoredTransferLog(c, a, <<"2">>, "full", 7200), 2),
      StoredApprovalLog,
      SampleTransferLog }

\* a batch of twelve transfers with repeated values
LongBatch ==
    [i \in 1..12 |->
        StoredTransferLog([j \in 1..20 |-> i], [j \in 1..20 |-> 255],
                          <<HexChars[((5 * i) % 7) + 2]>>, "full", 3600 * i)]

Reversed(s) == [i \in 1..Len(s) |-> s[Len(s) + 1 - i]]

StoredUniswapLog(signature) ==
    [topics |-> <<signature, HexText(Pad(<<7>>, 32))>>,
     data |-> Prefix0x, timestamp |-> 3600]

Repeat(event, n) == [i \in 1..n |-> event]

\* the batches one contract of a bundle can have
ContractBatches ==
    LET transfer == StoredTransferLog([i \in 1..20 |-> 0], [i \in 1..20 |-> 255],
                                      <<"1">>, "full", 3600)
        swap == StoredUniswapLog(EventSignatures.UNISWAP_SWAP)
        initialize == StoredUniswapLog(EventSignatures.UNISWAP_INITIALIZE)
        liquidity == StoredUniswapLog(EventSignatures.UNISWAP_MODIFY_LIQUIDITY)
        approval == StoredApprovalLog
    IN
    { <<>>,
      <<transfer, transfer>>,
      <<SampleTransferLog>>,
      <<swap, initialize, liquidity>>,
      <<approval>>,
      <<[topics |-> <<>>, data |-> Prefix0x, timestamp |-> 3600]>>,
      <<[data |-> Prefix0x, timestamp |-> 3600]>>,
      <<[transfer EXCEPT !.data = <<"0", "x", "z", "z">>]>>,
      <<swap, transfer>>,
      Repeat(approval, 4) \o <<transfer>>,
      Repeat(approval, 5) \o <<transfer>>,
      Repeat(approval, 5) \o <<swap>>,
      Repeat(approval, 4) \o <<swap, transfer>> }

\* latest_block of the sample data, and one with the block as the node gave it
LatestBlocks ==
    { [block_number |-> 19000010],
      [block_number |-> 19000010,
       raw_block_data |-> [gasUsed |-> 150000, gasLimit |-> 300000]] }

ContractNames == <<"USDC", "PoolManager">>

NoCall == [op |-> "none"]
NoResult == [status |-> "none"]

HandleLogInputs ==
    { [op |-> "handle_log",
       log |-> [topic0 |-> t, ntopics |-> n],
       pair |-> pair] :
         t \in {Bytes(EventSignatures[name]) : name \in DOMAIN EventSignatures}
                 \cup {"00000000000000000000000000000000000000000000000000000000000000ff"},
         n \in 1..4,
         pair \in {pr \in Pairs : Enabled(pr)} }

DecodeLiveInputs ==
    { [op |-> "decode_live", A |-> A, B |-> B, V |-> V,
       log |-> NodeTransferLog(A, B, V, FALSE)] :
         A \in Addresses, B \in Addresses, V \in Numerals }
    \cup
    { [op |-> "decode_live", A |-> A, B |-> B, V |-> <<>>,
       log |-> NodeTransferLog(A, B, <<>>, TRUE)] :
         A \in Addresses, B \in Addresses }

DecodeBatchInputs ==
    { [op |-> "decode_batch", A |-> A, B |-> B, V |-> V,
       event |-> StoredTransferLog(A, B, V, "full", None)] :
         A \in Addresses, B \in Addresses, V \in Numerals }
    \cup
    { [op |-> "decode_batch", A |-> A, B |-> B, V |-> <<>>,
       event |-> StoredTransferLog(A, B, <<>>, data, None)] :
         A \in Addresses, B \in Addresses, data \in {"0x", "empty"} }

TransformInputs ==
    { [op |-> "transform_erc20", events |-> events] :
         events \in SeqsUpTo(BatchEvents, MaxBatch)
                      \cup {LongBatch, Reversed(LongBatch)} }

\* extracted_data with no, one or two contracts, with and without a block
ExtractedInputs ==
    LET items == {<<>>}
            \cup { <<[name |-> ContractNames[1], events |-> b]>> :
                      b \in ContractBatches }
            \cup { <<[name |-> ContractNames[1], events |-> b1],
                     [name |-> ContractNames[2], events |-> b2]>> :
                      b1 \in ContractBatches, b2 \in ContractBatches }
    IN
    { [op |-> "transform_extracted",
       extracted_data |-> [extraction_timestamp |-> 3600, events |-> i]] :
         i \in items }
    \cup
    { [op |-> "transform_extracted",
       extracted_data |-> [extraction_timestamp |-> 3600, events |-> i,
                           latest_block |-> lb]] :
         i \in items, lb \in LatestBlocks }

BlockInputs ==
    { [op |-> "transform_block",
       block_data |-> [raw_block_data |-> [gasUsed |-> u, gasLimit |-> l]]] :
         l \in {20, 200}, u \in 0..201 }
    \cup
    { [op |-> "transform_block", block_data |-> lb] : lb \in LatestBlocks }

FunctionInputs ==
    HandleLogInputs \cup DecodeLiveInputs \cup DecodeBatchInputs
        \cup TransformInputs \cup ExtractedInputs \cup BlockInputs

(***************************************************************************)
(* One run of a function on its argument.                                  *)
(***************************************************************************)
HandleLogCall ==
    /\ fnInput.op = "handle_log" /\ fnOutput.status = "none"
    /\ fnOutput' = [status |-> "done",
                    event |-> HandleLog(fnInput.log, fnInput.pair, TRUE)]
    /\ UNCHANGED <<busVars, listenerVars, fnInput>>

CreateErc20TransferEventCall ==
    /\ fnInput.op = "decode_live" /\ fnOutput.status = "none"
    /\ fnOutput' = DecodeErc20Transfer(fnInput.log)
    /\ UNCHANGED <<busVars, listenerVars, fnInput>>

TransformErc20TransferCall ==
    /\ fnInput.op = "decode_batch" /\ fnOutput.status = "none"
    /\ fnOutput' = TransformErc20Transfer(fnInput.event)
    /\ UNCHANGED <<busVars, listenerVars, fnInput>>

TransformErc20EventsCall ==
    /\ fnInput.op = "transform_erc20" /\ fnOutput.status = "none"
    /\ fnOutput' = TransformErc20Events(fnInput.events)
    /\ UNCHANGED <<busVars, listenerVars, fnInput>>

TransformExtractedDataCall ==
    /\ fnInput.op = "transform_extracted" /\ fnOutput.status = "none"
    /\ fnOutput' = TransformExtractedData(fnInput.extracted_data)
    /\ UNCHANGED <<busVars, listenerVars, fnInput>>

TransformBlockDataCall ==
    /\ fnInput.op = "transform_block" /\ fnOutput.status = "none"
    /\ fnOutput' = TransformBlockData(fnInput.block_data)
    /\ UNCHANGED <<busVars, listenerVars, fnInput>>

FunctionsNext ==
    \/ HandleLogCall
    \/ CreateErc20TransferEventCall
    \/ TransformErc20TransferCall
    \/ TransformErc20EventsCall
    \/ TransformExtractedDataCall
    \/ TransformBlockDataCall

(***************************************************************************)
(* Specifications.  Spec: the bus with its publishers, the listener at     *)
(* rest.  SpecListener: the listener, on a bus whose registry was filled   *)
(* before listening starts (sync handlers only, or with coroutine          *)
(* handlers too).                                                          *)
(***************************************************************************)
vars == <<busVars, listenerVars, batchVars>>

\* no batch or decode step is under way
BatchIdle ==
    /\ fnInput = NoCall
    /\ fnOutput = NoResult

Init ==
    /\ BusInit
    /\ ListenerInit
    /\ web3_ws = TRUE
    /\ BatchIdle

Next == BusNext

Spec == Init /\ [][Next]_vars

ListenerRegistries == {register(EmptyRegistry, "A"),
                       register(register(EmptyRegistry, "A"), "B")}

InitListener ==
    /\ ListenerInit
    /\ \E R \in ListenerRegistries :
          /\ subscribers = R.sync
          /\ async_subscribers = R.async
    /\ disp = [p \in Publishers |-> IdleFrame]
    /\ tasks = [p \in Publishers |-> <<>>]
    /\ beginCount = 0
    /\ lastObserved = 0
    /\ prevObserved = 0
    /\ regOrder = <<>>
    /\ unregistered = {}
    /\ raisedIn = {}
    /\ calls = 0
    /\ BatchIdle

NextListener == ListenerNext

SpecListener == InitListener /\ [][NextListener]_vars

\* the listener's methods called in any order by several tasks, on a node
\* that creates, polls and uninstalls every filter without error
NextListenerCalls ==
    \/ StartListening({})
    \/ SecondStartListening({})
    \/ \E logs \in SeqsUpTo(LogShapes, MaxNodeLogs) : SecondLoopPolls(logs)
    \/ \E logs \in SeqsUpTo(LogShapes, MaxNodeLogs) : PollReturns(logs)
    \/ \E ok, handlerRaises \in BOOLEAN : HandleLogEvent(ok, handlerRaises)
    \/ PostAsyncReturns
    \/ SweepEnds
    \/ NextSweep
    \/ StopListening({})

SpecListenerCalls == InitListener /\ [][NextListenerCalls]_vars

\* the event loop resumes the start_listening task whenever it can run: every
\* await of the polling loop (the sleep, the gather of post_async) completes
SpecListenerFair == SpecListener /\ WF_vars(LoopStep)

\* the decoders and the batch transform, each run once on one argument
InitFunctions ==
    /\ BusInit
    /\ ListenerInit
    /\ web3_ws = TRUE
    /\ fnInput \in FunctionInputs
    /\ fnOutput = NoResult

SpecFunctions == InitFunctions /\ [][FunctionsNext]_vars

(***************************************************************************)
(* Properties.                                                             *)
(***************************************************************************)
NoDup(list) == \A h \in Handlers : Count(list, h) <= 1

Before(order, a, b) ==
    \E i, j \in 1..Len(order) : i < j /\ order[i] = a /\ order[j] = b

Finished(ts) == \A i \in 1..Len(ts) : ts[i].st \in {"done", "failed"}

\* C1: a sync handler that raises does not make post / post_async raise, and
\* every handler that was in the sync list of the event's kind when the
\* publish began is invoked in that publish, whether or not a handler raised
\* in it or in an earlier publish (dispatches in which no handler called
\* register or unregister).
C1_SyncFailureIsolated ==
    \A p \in Publishers :
        LET d == disp[p] IN
        /\ d.result # "raised"
        /\ (d.pc \in {"await", "done"} /\ ~Mutated(d))
              => \A h \in Handlers : Count(d.invoked, h) = Count(d.snapSync, h)

\* C1 witness: a publish in which a handler raised has returned with two or
\* more handlers invoked, and a handler had raised in the publish before it.
C1_Witness ==
    \E p \in Publishers :
        LET d == disp[p] IN
        /\ d.pc = "done" /\ d.result = "returned"
        /\ d.ev \in raisedIn /\ (d.ev - 1) \in raisedIn
        /\ Len(d.invoked) >= 2

\* C2: with m sync and n coroutine handlers each registered once for kind K,
\* a post_async of kind K that has returned made exactly m + n invocations,
\* each handler once, and every task it created is done or failed.
C2_FanOut ==
    \A p \in Publishers :
        LET d == disp[p]
            ts == tasks[p]
        IN
        (/\ d.pc = "done" /\ d.mode = "post_async"
         /\ ~Mutated(d) /\ NoDup(d.snapSync) /\ NoDup(d.snapAsync))
          => /\ d.result = "returned"
             /\ Len(d.invoked) + Len(ts) = Len(d.snapSync) + Len(d.snapAsync)
             /\ \A h \in Handlers : Count(d.invoked, h) = Count(d.snapSync, h)
             /\ \A h \in Handlers :
                   Cardinality({i \in 1..Len(ts) : ts[i].h = h}) = Count(d.snapAsync, h)
             /\ Finished(ts)

\* C2 witness: the instance m = 3, n = 2 has returned after 5 invocations.
C2_Witness ==
    \E p \in Publishers :
        LET d == disp[p] IN
        /\ d.pc = "done" /\ d.mode = "post_async" /\ ~Mutated(d)
        /\ NoDup(d.snapSync) /\ NoDup(d.snapAsync)
        /\ Len(d.snapSync) = 3 /\ Len(d.snapAsync) = 2
        /\ Len(d.invoked) + Len(tasks[p]) = 5

\* C3: when a task of the concurrent group has failed, no sibling task is
\* cancelled, post_async does not raise, and post_async has not returned
\* before every sibling is done or failed.
C3_ConcurrentFailureIsolated ==
    \A p \in Publishers :
        LET ts == tasks[p] IN
        (\E i \in 1..Len(ts) : ts[i].st = "failed")
          => /\ \A j \in 1..Len(ts) : ts[j].st # "cancelled"
             /\ disp[p].result # "raised"
             /\ disp[p].pc = "done" => Finished(ts)

\* C3 witness: post_async has returned with one task failed and a sibling done.
C3_Witness ==
    \E p \in Publishers :
        LET ts == tasks[p] IN
        /\ disp[p].pc = "done" /\ disp[p].result = "returned"
        /\ \E i, j \in 1..Len(ts) : ts[i].st = "failed" /\ ts[j].st = "done"

\* C4: a post that has returned invoked every sync handler that is once in
\* the list of the event's kind exactly once, and invoked those handlers in
\* the order of their registration.
C4_RegistrationOrder ==
    \A p \in Publishers :
        LET d == disp[p]
            once(h) == Count(d.snapSync, h) = 1
        IN
        (d.pc = "done" /\ d.mode = "post" /\ ~Mutated(d))
          => /\ \A h \in Handlers : once(h) => Count(d.invoked, h) = 1
             /\ \A i, j \in 1..Len(d.invoked) :
                   (i < j /\ once(d.invoked[i]) /\ once(d.invoked[j]))
                     => Before(regOrder, d.invoked[i], d.invoked[j])

\* C4 witness: a post has returned after invoking the three sync handlers of
\* two subscribers, each registered once.
C4_Witness ==
    \E p \in Publishers :
        LET d == disp[p] IN
        /\ d.pc = "done" /\ d.mode = "post" /\ ~Mutated(d)
        /\ NoDup(d.snapSync) /\ Len(d.snapSync) = 3
        /\ Len(d.invoked) = 3

\* C5: once unregister(s) has returned, and until s is registered again, no
\* handler of s is in the sync or in the concurrent group.
C5_UnregisterRemovesAll ==
    \A s \in unregistered : \A i \in 1..Len(Methods(s)) :
        LET h == Methods(s)[i] IN
        /\ ~Member(Get(subscribers, event_type(h)), h)
        /\ ~Member(Get(async_subscribers, event_type(h)), h)

\* C6: no (subscriber, method, kind) triple is in the registry twice.
C6_NoDuplicateTriples ==
    /\ \A k \in DOMAIN subscribers : NoDup(subscribers[k])
    /\ \A k \in DOMAIN async_subscribers : NoDup(async_subscribers[k])

\* C7: when a handler calls register or unregister during a dispatch, every
\* handler that was registered (once) for the kind when the dispatch began,
\* and whose subscriber that dispatch neither unregistered nor registered
\* again, is invoked exactly once in the dispatch.
C7_MutationDuringDispatch ==
    \A p \in Publishers :
        LET d == disp[p] IN
        (d.pc = "done" /\ Mutated(d))
          => \A h \in Handlers :
                (Count(d.snapSync, h) = 1 /\ Owner(h) \notin (d.unreg \cup d.reg))
                  => Count(d.invoked, h) = 1

\* C8: sync handlers never interleave across publishes: no two publishes are
\* in their sync phase at once, no publish begins while another is in its
\* sync phase, and successive sync handler invocations see the events in the
\* order in which their publishes began.
C8_SyncPhasesDoNotInterleave ==
    /\ prevObserved <= lastObserved
    /\ \A p, q \in Publishers :
          p # q => ~(disp[p].pc = "sync" /\ disp[q].pc = "sync")
    /\ \A p \in Publishers : disp[p].pc = "sync" => disp[p].ev = beginCount

\* C8 witness: while the post_async of one publisher awaits its tasks, after
\* its sync handlers ran, the post_async of the other publisher has run a
\* sync handler.
C8_Witness ==
    \E p, q \in Publishers :
        /\ p # q
        /\ disp[p].pc = "await" /\ disp[p].invoked # <<>>
        /\ disp[q].mode = "post_async" /\ disp[q].invoked # <<>>
        /\ disp[q].ev > disp[p].ev

\* C9: in a sweep that ran to its end with no stop_listening during it, every
\* active filter was polled, also after a poll that raised, and every log a
\* successful poll returned was handled: posted, unless its own timestamp
\* lookup failed or it is a Transfer log with fewer than 3 topics.
C9_PollFailureIsolated ==
    (lst.pc = "sleeping" /\ ~sweepLog.stopped)
      => /\ Len(sweepLog.polls) = Len(active_filters)
         /\ \A i \in 1..Len(sweepLog.polls) :
               LET poll == sweepLog.polls[i] IN
               /\ poll.filter = active_filters[i].filter
               /\ poll.ok => Len(poll.did) = Len(poll.logs)
               /\ \A j \in 1..Len(poll.did) :
                     \/ poll.did[j] \in Kinds
                     \/ poll.did[j] = "timestamp_failed"
                     \/ /\ poll.did[j] = "decode_failed"
                        /\ Hex(poll.logs[j].topic0) = ERC20_TRANSFER
                        /\ poll.logs[j].ntopics < 3

\* C9 witness: a sweep over 3 filters has ended in which the poll of filter 2
\* raised and a log of filter 1 and a log of filter 3 were posted.
C9_Witness ==
    /\ lst.pc = "sleeping" /\ ~sweepLog.stopped
    /\ Len(sweepLog.polls) = 3
    /\ ~sweepLog.polls[2].ok
    /\ \E j \in 1..Len(sweepLog.polls[1].did) : sweepLog.polls[1].did[j] \in Kinds
    /\ \E j \in 1..Len(sweepLog.polls[3].did) : sweepLog.polls[3].did[j] \in Kinds

\* C10: after the subscription phase of start_listening, active_filters holds
\* a filter for exactly the enabled pairs whose filter creation succeeded, in
\* configuration order, and none for a pair whose creation failed.
C10_CreationFailureIsolated ==
    subscribed.valid
      => /\ \A i \in 1..Len(active_filters) : active_filters[i].filter # None
         /\ [i \in 1..Len(active_filters) |-> active_filters[i].pair]
              = SelectSeq(PairOrder,
                          LAMBDA pr : Enabled(pr) /\ pr \notin subscribed.fails)

\* C10 witness: the creation failed for one of the three enabled pairs and
\* the other two are recorded, and the polling loop was entered.
C10_Witness ==
    /\ subscribed.valid
    /\ Cardinality(subscribed.fails) = 1
    /\ Len(active_filters) = 2
    /\ lst.pc = "sweep"

\* C11: stop_listening is idempotent and total.  After a stop_listening call,
\* and until the next start_listening, whether it was called twice in a row,
\* before any start_listening, or with uninstall_filter failing on the node,
\* the call raised nothing and active_filters is empty.
C11_StopIdempotentTotal ==
    stopLog.streak > 0 => (~stopLog.raised /\ active_filters = <<>>)

\* C11 witness: stop_listening ran twice in a row, the uninstall of a filter
\* having failed in the first call while another filter was uninstalled.
C11_Witness ==
    /\ stopLog.streak = 2 /\ stopLog.failed /\ ~stopLog.raised
    /\ installed # {} /\ Cardinality(installed) < 3
    /\ active_filters = <<>>

\* C12: once stop_listening has been called while the polling loop runs, the
\* loop terminates: start_listening returns and the listener is idle again.
C12_StopEndsLoop ==
    (stopLog.streak > 0 /\ lst.pc # "idle") ~> (lst.pc = "idle")

\* C13: no failure inside the polling loop ends it.  Whatever polls, timestamp
\* lookups, decodes or handlers fail, a step of the loop leaves it running.
C13_LoopSurvivesFailures ==
    [][lst.pc # "idle" => lst'.pc # "idle"]_vars

\* C13 witness: after a sweep in which a poll failed and a log met a failure
\* (timestamp lookup, decode or handler), the loop is polling the filters
\* again, and has published a log in this sweep although a handler raised on
\* it.
C13_Witness ==
    /\ lst.pc = "sweep" /\ lst.idx >= 1
    /\ sweepLog.prevFailed
    /\ "handler" \in sweepLog.failures
    /\ \E i \in 1..Len(sweepLog.polls) :
          \E j \in 1..Len(sweepLog.polls[i].did) : sweepLog.polls[i].did[j] \in EventKinds

\* C14: the sleep after a sweep in which a filter poll failed is the long one
\* (5 s); the sleep after a sweep without a failure is the short one (0.5 s).
C14_BackoffAfterFailedSweep ==
    lst.pc = "sleeping"
      => lst.pause = IF "poll" \in sweepLog.failures
                     THEN SLEEP_AFTER_ERROR
                     ELSE SLEEP_AFTER_SWEEP

\* C15: without a realtime connection (the block listener cannot run), once
\* start_listening has run there is a filter for every enabled pair and the
\* polling loop is running.
C15_LogListeningWithoutBlockSource ==
    (subscribed.called /\ ~web3_ws)
      => /\ \A pair \in Pairs :
               Enabled(pair) => \E i \in 1..Len(active_filters) :
                                   active_filters[i].pair = pair
         /\ lst.pc # "idle"

\* a log with the Transfer signature and fewer than 3 topics
MalformedTransfer(log) == Hex(log.topic0) = ERC20_TRANSFER /\ log.ntopics < 3

\* C19: on the live path a Transfer log with fewer than 3 topics ends in a
\* decode error and is not published, no exception leaves _handle_log_event
\* (the loop stays in its sweep), and the remaining logs of the poll and the
\* remaining filters of the sweep are processed.
C19_MalformedTransferDropped ==
    LET polls == sweepLog.polls
        met == \E i \in 1..Len(polls) : \E j \in 1..Len(polls[i].did) :
                  MalformedTransfer(polls[i].logs[j])
    IN
    /\ \A i \in 1..Len(polls) : \A j \in 1..Len(polls[i].did) :
          MalformedTransfer(polls[i].logs[j])
            => polls[i].did[j] \in {"decode_failed", "timestamp_failed"}
    /\ met => lst.pc # "idle"
    /\ (met /\ lst.pc = "sleeping" /\ ~sweepLog.stopped)
          => /\ Len(polls) = Len(active_filters)
             /\ \A i \in 1..Len(polls) :
                   polls[i].ok => Len(polls[i].did) = Len(polls[i].logs)

\* C19 witness: a sweep over 3 filters has ended in which the first poll
\* returned a malformed Transfer log followed by a well-formed one: the first
\* met a decode error, the second was published, the other filters were polled.
C19_Witness ==
    /\ lst.pc = "sleeping" /\ ~sweepLog.stopped
    /\ Len(sweepLog.polls) = 3
    /\ Len(sweepLog.polls[1].logs) = 2
    /\ MalformedTransfer(sweepLog.polls[1].logs[1])
    /\ sweepLog.polls[1].did = <<"decode_failed", "ERC20TransferEvent">>

\* C16: in the EventSignatures registry no two distinct event kinds have the
\* same topic-0 signature value: the topics[0] of a log handed to the decoder
\* is the signature of at most one kind of the registry.
C16_SignaturesUnique ==
    fnInput.op = "handle_log"
      => \A a, b \in DOMAIN EventSignatures :
            (/\ EventSignatures[a] = Str0x(fnInput.log.topic0)
             /\ EventSignatures[b] = Str0x(fnInput.log.topic0)) => a = b

\* C17: _handle_log_event builds, for a log whose topics[0] is the ERC20
\* Transfer, Uniswap Swap, Initialize or ModifyLiquidity signature, the event
\* of the corresponding typed kind (for Transfer: whenever the log has the 3
\* topics the decoder reads, and never an event of another kind), and for any
\* other topics[0] a generic EthereumEvent named after the subscribing event
\* config whose raw_data is the log.
C17_DecodeBySignature ==
    (fnInput.op = "handle_log" /\ fnOutput.status = "done")
      => LET log == fnInput.log
             ev == fnOutput.event
             sig == Str0x(log.topic0)
         IN
         IF sig = EventSignatures.ERC20_TRANSFER
         THEN /\ ev.kind \in EventKinds => ev.kind = "ERC20TransferEvent"
              /\ log.ntopics >= 3 => ev.kind \in EventKinds
         ELSE IF sig = EventSignatures.UNISWAP_SWAP
         THEN ev.kind = "UniswapSwapEvent"
         ELSE IF sig = EventSignatures.UNISWAP_INITIALIZE
         THEN ev.kind = "UniswapInitializeEvent"
         ELSE IF sig = EventSignatures.UNISWAP_MODIFY_LIQUIDITY
         THEN ev.kind = "UniswapModifyLiquidityEvent"
         ELSE /\ ev.kind = "EthereumEvent"
              /\ ev.event_name = contracts[fnInput.pair[1]].events[fnInput.pair[2]].name
              /\ ev.raw_data = log

\* C17 witness: a log with the Uniswap Initialize signature, received on the
\* filter of another event, has been decoded into a UniswapInitializeEvent.
C17_Witness ==
    /\ fnInput.op = "handle_log" /\ fnOutput.status = "done"
    /\ Str0x(fnInput.log.topic0) = EventSignatures.UNISWAP_INITIALIZE
    /\ fnInput.pair = <<1, 1>>
    /\ fnOutput.event.kind = "UniswapInitializeEvent"
    /\ fnOutput.event.raw_data = fnInput.log

\* C18: for topics [sig, pad(A), pad(B)] and data the 32-byte big-endian
\* encoding of V, the live decoder and the batch decoder both yield from = A,
\* to = B and value = V exactly, for V = 0, 1 and values beyond 64 bits; an
\* empty data payload decodes to 0.
C18_Erc20RoundTrip ==
    (fnInput.op \in {"decode_live", "decode_batch"} /\ fnOutput.status # "none")
      => /\ fnOutput.status = "ok"
         /\ fnOutput.from_address = HexText(fnInput.A)
         /\ fnOutput.to_address = HexText(fnInput.B)
         /\ fnOutput.value = fnInput.V

\* C18 witness: the live decoder has returned the value 2^64 + 1 and two
\* different addresses.
C18_Witness ==
    /\ fnInput.op = "decode_live" /\ fnOutput.status = "ok"
    /\ fnInput.A # fnInput.B
    /\ Len(fnInput.V) = 17 /\ fnInput.V[17] = "1"
    /\ fnOutput.value = fnInput.V

\* the aggregates of a transform_erc20_events result
Aggregates(res) ==
    [total_transfers |-> res.total_transfers,
     total_volume |-> res.total_volume,
     unique_addresses |-> res.unique_addresses,
     address_activity |-> res.address_activity,
     top_transfers |-> res.top_transfers]

NotMalformed(event) ==
    ~(IsErc20Transfer(event) /\ Len(DictGet(event, "topics", <<>>)) < 3)

\* C20: transform_erc20_events skips a Transfer log with fewer than 3 topics:
\* the aggregates of a batch are those of the batch without its malformed
\* logs, and the call returns.
C20_MalformedSkipped ==
    (fnInput.op = "transform_erc20" /\ fnOutput.status # "none")
      => /\ fnOutput.status = "ok"
         /\ Aggregates(fnOutput) =
               Aggregates(TransformErc20Events(SelectSeq(fnInput.events, NotMalformed)))

\* the kind of the call in frame d had no handler in either registry when
\* the call began
NoHandlerAtCall(d) ==
    /\ d.pc \in {"sync", "await", "done"}
    /\ d.snapSync = <<>>
    /\ d.snapAsync = <<>>
    /\ d.mode = "post" => Get(async_subscribers, d.kind) = <<>>

\* C28: post or post_async of an event whose kind has no handler is a no-op:
\* no handler is invoked, no task is created, the call is never suspended,
\* nothing is raised and the call returns.
C28_NoSubscriberNoOp ==
    \A p \in Publishers :
       NoHandlerAtCall(disp[p])
       => /\ disp[p].invoked = <<>>
          /\ tasks[p] = <<>>
          /\ disp[p].pc # "await"
          /\ disp[p].ev \notin raisedIn
          /\ disp[p].pc = "done" => disp[p].result = "returned"

\* a post_async of a kind without handlers returned while another kind had
\* handlers
C28_Witness ==
    \E p \in Publishers :
       /\ NoHandlerAtCall(disp[p])
       /\ disp[p].pc = "done"
       /\ disp[p].mode = "post_async"
       /\ disp[p].result = "returned"
       /\ \E k \in DOMAIN subscribers : subscribers[k] # <<>>
       /\ \E k \in DOMAIN async_subscribers : async_subscribers[k] # <<>>

\* C27: within one filter the logs of a poll are handled, and their events
\* published, in the order the node returned them; a poll of the filter is
\* made only when every log of the polls before it was handled; while the
\* post_async of a log is awaited no other log is handled.
C27_FilterOrder ==
    /\ [](/\ \A i \in 1..Len(sweepLog.polls) :
               LET poll == sweepLog.polls[i] IN
               /\ Len(poll.order) <= Len(poll.logs)
               /\ \A j \in 1..Len(poll.order) : poll.order[j] = poll.logs[j].serial
               /\ \A j \in 1..Len(poll.logs) :
                     \A i2 \in 1..(i - 1) :
                        /\ Len(sweepLog.polls[i2].order) = Len(sweepLog.polls[i2].logs)
                        /\ \A j2 \in 1..Len(sweepLog.polls[i2].logs) :
                              sweepLog.polls[i2].logs[j2].serial < poll.logs[j].serial
          /\ lst.pc \in {"sweep", "sleeping"} =>
               /\ lst.new_events = <<>>
               /\ \A i \in 1..Len(sweepLog.polls) :
                     Len(sweepLog.polls[i].order) = Len(sweepLog.polls[i].logs))
    /\ [][lst.pc = "publishing" => sweepLog'.polls = sweepLog.polls]_vars

\* the event of the second log of a poll is being published, after the
\* event of the first log was
C27_Witness ==
    /\ lst.pc = "publishing"
    /\ \E i \in 1..Len(sweepLog.polls) :
          LET poll == sweepLog.polls[i] IN
          /\ Len(poll.logs) = 2
          /\ poll.order = <<poll.logs[1].serial, poll.logs[2].serial>>
          /\ poll.did[1] \in EventKinds
          /\ poll.did[2] \in EventKinds

\* C29: after a subscription phase with a realtime connection in which no
\* filter creation failed, active_filters holds exactly one entry for each
\* enabled pair and none for a disabled pair, and each entry's filter was
\* created for the address of its contract and the topics made of the
\* event's signature followed by its configured topics.
C29_FiltersMatchConfiguration ==
    (subscribed.valid /\ subscribed.fails = {})
    => /\ \A pair \in Pairs :
             Cardinality({i \in 1..Len(active_filters) :
                             active_filters[i].pair = pair})
               = IF contracts[pair[1]].events[pair[2]].enabled THEN 1 ELSE 0
       /\ \A i \in 1..Len(active_filters) :
             LET entry == active_filters[i]
                 contract == contracts[entry.pair[1]]
                 event_config == contract.events[entry.pair[2]]
             IN
             /\ entry.filter \in installed
             /\ entry.filter_params.address = contract.address
             /\ entry.filter_params.topics[1] = event_config.signature
             /\ SubSeq(entry.filter_params.topics, 2, Len(entry.filter_params.topics))
                  = event_config.topics

\* every creation succeeded: three filters, the one of PoolManager.Swap with
\* its further topic
C29_Witness ==
    /\ subscribed.valid
    /\ subscribed.fails = {}
    /\ Len(active_filters) = 3
    /\ \E i \in 1..Len(active_filters) :
          /\ active_filters[i].pair = <<2, 1>>
          /\ Len(active_filters[i].filter_params.topics) = 2

\* C30: whatever start_listening and stop_listening calls are made on the
\* listener, active_filters never holds two entries for one (contract,
\* event) pair.
C30_OneFilterPerPair ==
    \A pair \in Pairs :
       Cardinality({i \in 1..Len(active_filters) :
                       active_filters[i].pair = pair}) <= 1

(***************************************************************************)
(* The batch path: transform_extracted_data and what it calls.             *)
(***************************************************************************)
\* int(value_hex, 16) of the log's data succeeds
HexData(event) ==
    LET data == DictGet(event, "data", Prefix0x)
        value_hex == IF StartsWith0x(data) THEN data ELSE Prefix0x \o data
    IN value_hex = Prefix0x \/ ParseInt16(value_hex).status = "ok"

\* a log with an empty or missing topics list, or with data that is no
\* hexadecimal text
Undecodable(event) ==
    \/ "topics" \notin DOMAIN event
    \/ event.topics = <<>>
    \/ ~HexData(event)

NoTimestamp(event) == DictGet(event, "timestamp", None) = None

\* a log every decoder of the batch path reads in full
WellFormedLog(event) ==
    /\ ~Undecodable(event)
    /\ IsErc20Transfer(event) => Len(event.topics) >= 3 /\ ~NoTimestamp(event)

WellFormedBatch(events) ==
    \A i \in 1..Len(events) : WellFormedLog(events[i])

Items == fnInput.extracted_data.events

\* C21: in transform_extracted_data a contract whose batch holds an
\* undecodable log (empty or missing topics, data that is no hexadecimal
\* text) does not keep the other contracts from being transformed: the call
\* returns and transformed_events holds the aggregates of every well-formed
\* contract.
C21_UndecodableContractIsolated ==
    ( /\ fnInput.op = "transform_extracted"
      /\ fnOutput.status # "none"
      /\ \E i \in 1..Len(Items) :
            \E j \in 1..Len(Items[i].events) : Undecodable(Items[i].events[j])
      /\ \A i \in 1..Len(Items) :
            \/ WellFormedBatch(Items[i].events)
            \/ \E j \in 1..Len(Items[i].events) : Undecodable(Items[i].events[j]) )
    => /\ fnOutput.status = "ok"
       /\ \A i \in 1..Len(Items) :
             (Items[i].events # <<>> /\ WellFormedBatch(Items[i].events))
             => /\ Items[i].name \in DOMAIN fnOutput.transformed_events
                /\ fnOutput.transformed_events[Items[i].name]
                     = TransformContract(Items[i].events)

\* a Transfer log as the sample data has it: decodable, without a timestamp
TimestamplessTransfer(event) ==
    /\ IsErc20Transfer(event)
    /\ ~Undecodable(event)
    /\ Len(event.topics) >= 3
    /\ NoTimestamp(event)

\* C22: the batch transform completes on a bundle whose Transfer logs carry
\* no timestamp field, as the sample data of the repository: the call
\* returns and every such transfer is counted in its contract's aggregates.
C22_TimestamplessTransfersAggregated ==
    ( /\ fnInput.op = "transform_extracted"
      /\ fnOutput.status # "none"
      /\ \A i \in 1..Len(Items) : \A j \in 1..Len(Items[i].events) :
            \/ WellFormedLog(Items[i].events[j])
            \/ TimestamplessTransfer(Items[i].events[j]) )
    => /\ fnOutput.status = "ok"
       /\ \A i \in 1..Len(Items) :
             (Items[i].events # <<>> /\ IsErc20Contract(Items[i].events))
             => fnOutput.transformed_events[Items[i].name].total_transfers
                  = Cardinality({j \in 1..Len(Items[i].events) :
                                    IsErc20Transfer(Items[i].events[j])})

\* the value a well-formed Transfer log carries, as a decimal numeral
ValueOf(event) == StrOfInt(ParseInt16(event.data).value)

RECURSIVE ExactSum(_)
ExactSum(events) ==
    IF events = <<>> THEN <<>>
    ELSE AddNumerals(ValueOf(Head(events)), ExactSum(Tail(events)))

\* the place of entry i when the entries are put largest first, entries of
\* equal value in input order
Rank(tes, i) ==
    Cardinality({j \in 1..Len(tes) :
        \/ /\ NumeralGeq(tes[j].value_decimal.digits, tes[i].value_decimal.digits)
           /\ tes[j].value_decimal # tes[i].value_decimal
        \/ tes[j].value_decimal = tes[i].value_decimal /\ j < i}) + 1

TransferBatch(events) ==
    /\ WellFormedBatch(events)
    /\ \A i \in 1..Len(events) : IsErc20Transfer(events[i])

\* C23: for well-formed Transfer logs with timestamps transform_erc20_events
\* returns total_volume equal to the exact sum of the values,
\* unique_addresses equal to the number of distinct senders and recipients,
\* and top_transfers equal to the at most 10 largest transfers, largest
\* first, transfers of equal value in input order.
C23_Erc20Aggregates ==
    ( /\ fnInput.op = "transform_erc20"
      /\ fnOutput.status # "none"
      /\ TransferBatch(fnInput.events) )
    => /\ fnOutput.status = "ok"
       /\ IntOfDecimal(fnOutput.total_volume) = ExactSum(fnInput.events)
       /\ fnOutput.unique_addresses
            = Cardinality(UNION {{Prefix0x \o LastN(fnInput.events[i].topics[2], 40),
                                  Prefix0x \o LastN(fnInput.events[i].topics[3], 40)} :
                                     i \in 1..Len(fnInput.events)})
       /\ Len(fnOutput.top_transfers)
            = IF Len(fnInput.events) < 10 THEN Len(fnInput.events) ELSE 10
       /\ \A i \in 1..Len(fnOutput.events) :
             Rank(fnOutput.events, i) <= 10
             => fnOutput.top_transfers[Rank(fnOutput.events, i)] = fnOutput.events[i]

\* the gas figures of the block a transform_block_data call was given
RawBlock == fnInput.block_data.raw_block_data

C25_BundleKeys ==
    (fnInput.op = "transform_extracted" /\ fnOutput.status = "ok")
    => /\ DOMAIN fnOutput = {"status", "metadata", "transformed_blocks",
                             "transformed_events", "analytics"}
       /\ DOMAIN fnOutput.transformed_events
            = {Items[i].name : i \in {j \in 1..Len(Items) : Items[j].events # <<>>}}

\* a bundle with an empty and a non-empty contract was transformed
C25_Witness ==
    /\ fnInput.op = "transform_extracted"
    /\ fnOutput.status = "ok"
    /\ \E i, j \in 1..Len(Items) :
          /\ Items[i].events = <<>>
          /\ Items[j].events # <<>>
          /\ Items[j].name \in DOMAIN fnOutput.transformed_events

\* the transform an entry of transformed_events came from, by its keys
TransformOf(contract_data) ==
    IF "total_transfers" \in DOMAIN contract_data THEN "erc20"
    ELSE IF "swap_events" \in DOMAIN contract_data THEN "uniswap"
    ELSE "generic"

\* C26: a batch is transformed as ERC20 if one of its first 5 entries has
\* the Transfer signature as topics[0], otherwise as Uniswap if one of them
\* has one of the three Uniswap signatures, otherwise as generic; entries
\* after the fifth have no influence.
C26_BatchClassification ==
    (fnInput.op = "transform_extracted" /\ fnOutput.status = "ok")
    => \A i \in 1..Len(Items) :
          Items[i].events # <<>>
          => LET events == Items[i].events
                 first == 1..(IF Len(events) < 5 THEN Len(events) ELSE 5)
             IN
             TransformOf(fnOutput.transformed_events[Items[i].name]) =
                (IF \E k \in first :
                       EventSignatureOf(events[k]) = EventSignatures.ERC20_TRANSFER
                 THEN "erc20"
                 ELSE IF \E k \in first :
                            EventSignatureOf(events[k]) \in UniswapSignatures
                 THEN "uniswap"
                 ELSE "generic")

\* a batch whose sixth entry is a Transfer was transformed as generic, and a
\* batch with a swap before a Transfer as ERC20
C26_Witness ==
    /\ fnInput.op = "transform_extracted"
    /\ fnOutput.status = "ok"
    /\ \E i, j \in 1..Len(Items) :
          /\ Len(Items[i].events) > 5
          /\ IsErc20Transfer(Items[i].events[6])
          /\ TransformOf(fnOutput.transformed_events[Items[i].name]) = "generic"
          /\ Len(Items[j].events) = 2
          /\ EventSignatureOf(Items[j].events[1]) \in UniswapSignatures
          /\ TransformOf(fnOutput.transformed_events[Items[j].name]) = "erc20"

(***************************************************************************)
(* The typed Uniswap events.                                               *)
(***************************************************************************)
\* the fields of each Uniswap kind that no constructor reads from the log:
\* the numeric ones and the address ones
NumericFields(kind) ==
    CASE kind = "UniswapSwapEvent" ->
           {"amount_0", "amount_1", "sqrt_price_x96", "liquidity", "tick"}
      [] kind = "UniswapInitializeEvent" -> {"fee", "tick_spacing"}
      [] kind = "UniswapModifyLiquidityEvent" ->
           {"tick_lower", "tick_upper", "liquidity_delta"}
      [] OTHER -> {}

AddressFields(kind) ==
    IF kind = "UniswapInitializeEvent" THEN {"currency0", "currency1", "hooks"}
    ELSE {}

\* C31: in the event built for a Uniswap Swap, Initialize or ModifyLiquidity
\* log, no field the decoder does not parse from the data is a literal zero
\* or the placeholder address "0x0".
C31_UndecodedMarker ==
    (fnInput.op = "handle_log" /\ fnOutput.status = "done")
      => LET ev == fnOutput.event IN
         /\ \A f \in NumericFields(ev.kind) : ev[f] # 0
         /\ \A f \in AddressFields(ev.kind) : ev[f] # "0x0"

(***************************************************************************)
(* The per-address and per-hour aggregates of transform_erc20_events.      *)
(***************************************************************************)
\* the decoded transfers address a takes part in
TakesPart(tes, a) ==
    {i \in 1..Len(tes) : tes[i].from_address = a \/ tes[i].to_address = a}

Participants(tes) ==
    {tes[i].from_address : i \in 1..Len(tes)}
        \cup {tes[i].to_address : i \in 1..Len(tes)}

\* the exact sum of the values of the decoded transfers of hour h
RECURSIVE HourSum(_, _)
HourSum(tes, h) ==
    IF tes = <<>> THEN <<>>
    ELSE IF Head(tes).timestamp = <<h>>
         THEN AddNumerals(Head(tes).value_decimal.digits, HourSum(Tail(tes), h))
         ELSE HourSum(Tail(tes), h)

ActivityCountsTransfers(out) ==
    /\ DOMAIN out.address_activity = Participants(out.events)
    /\ \A a \in Participants(out.events) :
          out.address_activity[a] = Cardinality(TakesPart(out.events, a))

HourlyVolumeExact(out) ==
    /\ DOMAIN out.hourly_volume =
          {out.events[i].timestamp[1] : i \in 1..Len(out.events)}
    /\ \A h \in DOMAIN out.hourly_volume :
          IntOfDecimal(out.hourly_volume[h]) = HourSum(out.events, h)

\* C32: in the result of transform_erc20_events, address_activity[a] is the
\* number of decoded transfers address a takes part in as sender or
\* recipient (a transfer from a to a is one transfer), and hourly_volume[h]
\* is the sum of the values of the transfers whose timestamp lies in hour h.
C32_ActivityAndHourlyVolume ==
    (fnInput.op = "transform_erc20" /\ fnOutput.status = "ok")
      => /\ ActivityCountsTransfers(fnOutput)
         /\ HourlyVolumeExact(fnOutput)

(***************************************************************************)
(* The analytics of a bundle.                                              *)
(***************************************************************************)
\* the number of logs of a batch its transform puts out: the Transfer logs
\* of an ERC20 batch, the Swap, Initialize and ModifyLiquidity logs of a
\* Uniswap batch, every log of a generic batch
PutOut(events, transform) ==
    Cardinality({k \in 1..Len(events) :
        CASE transform = "erc20" ->
               EventSignatureOf(events[k]) = EventSignatures.ERC20_TRANSFER
          [] transform = "uniswap" ->
               EventSignatureOf(events[k]) \in UniswapSignatures
          [] OTHER -> TRUE})

RECURSIVE PutOutFrom(_, _)
PutOutFrom(items, transformed_events) ==
    IF items = <<>> THEN 0
    ELSE (IF Head(items).events = <<>> THEN 0
          ELSE PutOut(Head(items).events,
                      TransformOf(transformed_events[Head(items).name])))
         + PutOutFrom(Tail(items), transformed_events)

\* C33: in the result of transform_extracted_data, event_distribution has
\* one entry per contract of transformed_events, equal to the number of
\* events in the contract's transformed output; total_events_processed is
\* the sum of the entries and contracts_analyzed their number.
C33_Analytics ==
    (fnInput.op = "transform_extracted" /\ fnOutput.status = "ok")
    => LET analytics == fnOutput.analytics
           transformed_events == fnOutput.transformed_events
       IN
       /\ DOMAIN analytics.event_distribution = DOMAIN transformed_events
       /\ \A i \in 1..Len(Items) :
             Items[i].events # <<>>
             => analytics.event_distribution[Items[i].name] =
                   PutOut(Items[i].events,
                          TransformOf(transformed_events[Items[i].name]))
       /\ analytics.total_events_processed = PutOutFrom(Items, transformed_events)
       /\ analytics.contracts_analyzed = Cardinality(DOMAIN transformed_events)

\* a bundle of an ERC20 batch with logs that are no transfers and a Uniswap
\* batch was transformed: one event of the first and three of the second
C33_Witness ==
    /\ fnInput.op = "transform_extracted"
    /\ fnOutput.status = "ok"
    /\ Len(Items) = 2
    /\ Len(Items[1].events) = 5
    /\ fnOutput.analytics.event_distribution =
          (Items[1].name :> 1) @@ (Items[2].name :> 3)
    /\ fnOutput.analytics.total_events_processed = 4
    /\ fnOutput.analytics.contracts_analyzed = 2

(***************************************************************************)
(* The registry across publishes.                                          *)
(***************************************************************************)
\* a step of a post or post_async call in which no handler calls register
\* or unregister: the frames or the tasks change, and a call counted in the
\* step is the publish itself
PublishStep ==
    /\ disp' # disp \/ tasks' # tasks
    /\ calls' # calls => beginCount' # beginCount

\* C34: post and post_async leave the registry as it is (the same keys, the
\* same handlers in the same order, in both groups): every step of a publish
\* in which no handler calls register or unregister keeps _subscribers and
\* _async_subscribers, so the registry after any sequence of publishes is
\* the registry before it.
C34_PublishKeepsRegistry ==
    [][PublishStep => /\ subscribers' = subscribers
                      /\ async_subscribers' = async_subscribers]_vars

\* a post_async of a kind with sync and coroutine handlers ran to its end,
\* a handler raising on the way, and the lists of the kind are the ones the
\* call found
C34_Witness ==
    \E p \in Publishers :
       /\ disp[p].pc = "done"
       /\ disp[p].mode = "post_async"
       /\ ~Mutated(disp[p])
       /\ disp[p].invoked # <<>>
       /\ tasks[p] # <<>>
       /\ disp[p].ev \in raisedIn
       /\ Get(subscribers, disp[p].kind) = disp[p].snapSync
       /\ Get(async_subscribers, disp[p].kind) = disp[p].snapAsync

(***************************************************************************)
(* Dispatch by the class of the event.                                     *)
(***************************************************************************)
\* C35: a handler registered for kind K is invoked, or started as a task,
\* only for events whose kind is exactly K: an ERC20TransferEvent reaches the
\* handlers of ERC20TransferEvent and never those of its base EthereumEvent.
C35_ExactKindDispatch ==
    \A p \in Publishers :
       disp[p].pc # "idle"
       => /\ \A i \in 1..Len(disp[p].invoked) :
                event_type(disp[p].invoked[i]) = disp[p].kind
          /\ \A i \in 1..Len(tasks[p]) :
                event_type(tasks[p][i].h) = disp[p].kind

\* an ERC20TransferEvent was delivered to its handlers while a handler of
\* EthereumEvent was registered, and that handler was not invoked
C35_Witness ==
    \E p \in Publishers :
       /\ disp[p].pc = "done"
       /\ disp[p].kind = "ERC20TransferEvent"
       /\ disp[p].invoked # <<>>
       /\ Member(Get(subscribers, BaseOf(disp[p].kind)), "d_base")
       /\ ~Member(disp[p].invoked, "d_base")

(***************************************************************************)
(* The two groups of one post_async call.                                  *)
(***************************************************************************)
\* the call of p suspends for the first time in this step
FirstSuspends(p) == disp[p].pc = "sync" /\ disp'[p].pc = "await"

\* a task of the call of p starts running in this step
TaskStarts(p) ==
    \E i \in 1..Len(tasks[p]) :
       /\ i <= Len(tasks'[p])
       /\ tasks[p][i].st = "pending"
       /\ tasks'[p][i].st # "pending"

\* C36: within one post_async call no coroutine handler starts running
\* before every sync handler of the publish has finished, and every
\* coroutine handler of the event is scheduled as a task before the call
\* first suspends.
C36_SyncBeforeConcurrent ==
    /\ [](\A p \in Publishers : disp[p].pc = "sync" => tasks[p] = <<>>)
    /\ [][\A p \in Publishers :
            /\ TaskStarts(p) => disp[p].pc = "await"
            /\ FirstSuspends(p)
                 => /\ disp[p].mode = "post_async"
                    /\ disp[p].idx >= Len(SyncList(disp[p]))
                    /\ Len(tasks'[p]) = Len(AsyncList(disp[p]))
                    /\ \A i \in 1..Len(tasks'[p]) :
                          /\ tasks'[p][i].h = AsyncList(disp[p])[i]
                          /\ tasks'[p][i].st = "pending"]_vars

\* a post_async with two sync and two coroutine handlers is suspended: both
\* sync handlers ran, one task has ended and the other has not started
C36_Witness ==
    \E p \in Publishers :
       /\ disp[p].pc = "await"
       /\ Len(disp[p].invoked) >= 2
       /\ Len(tasks[p]) >= 2
       /\ tasks[p][1].st = "pending"
       /\ tasks[p][2].st = "done"

(***************************************************************************)
(* C37: once stop_listening has returned, the polling loop issues no       *)
(* further get_new_entries call, on any filter: a step taken after the     *)
(* return and before a new start_listening adds no poll to the sweep, also *)
(* when the loop resumes in the middle of a sweep.                         *)
(***************************************************************************)
StopReturned == stopLog.streak > 0 /\ ~stopLog.raised

Polls == Len(sweepLog'.polls) > Len(sweepLog.polls)

C37_NoPollAfterStop == [][StopReturned => ~Polls]_vars

\* the loop has resumed after a stop_listening that ran in the middle of a
\* sweep and has ended the sweep with one poll, although a further filter
\* (one whose uninstall failed) is still installed on the node
C37_Witness ==
    /\ StopReturned
    /\ lst.pc = "sleeping"
    /\ sweepLog.stopped
    /\ Len(sweepLog.polls) = 1
    /\ \E fid \in installed : fid # sweepLog.polls[1].filter

(***************************************************************************)
(* C38: once stop_listening has returned, the listener publishes no        *)
(* further log event: a step taken after the return and before a new       *)
(* start_listening hands no event to post_async, also when the logs of one *)
(* poll were being handled at the time of the call.                        *)
(***************************************************************************)
Publishes ==
    \E n \in 1..Len(sweepLog.polls) :
        /\ n <= Len(sweepLog'.polls)
        /\ Len(sweepLog'.polls[n].did) > Len(sweepLog.polls[n].did)
        /\ sweepLog'.polls[n].did[Len(sweepLog'.polls[n].did)] \in EventKinds

C38_NoPublishAfterStop == [][StopReturned => ~Publishes]_vars

(***************************************************************************)
(* C39: every log a poll returned leads to at most one post_async call,    *)
(* and a log whose timestamp lookup or decode failed is dropped for good:  *)
(* each log of a poll is handled at most once, a handled log is no longer  *)
(* among the entries the loop has yet to take, and the only logs that ever *)
(* enter those entries are the ones a poll has just received from the      *)
(* node.                                                                   *)
(***************************************************************************)
Serials(entries) == {entries[j].serial : j \in 1..Len(entries)}

HandledOnce(poll) ==
    /\ Len(poll.did) = Len(poll.order)
    /\ \A i, j \in 1..Len(poll.order) : i # j => poll.order[i] # poll.order[j]
    /\ \A i \in 1..Len(poll.order) : poll.order[i] \in Serials(poll.logs)

NoRetryQueued ==
    \A serial \in Serials(lst'.new_events) :
        serial \in Serials(lst.new_events) \/ serial > nodeLogs

C39_AtMostOnePublishPerLog ==
    /\ [](\A n \in 1..Len(sweepLog.polls) :
            /\ HandledOnce(sweepLog.polls[n])
            /\ n = Len(sweepLog.polls) =>
                  Serials(lst.new_events) \cap
                    {sweepLog.polls[n].order[i] :
                        i \in 1..Len(sweepLog.polls[n].order)} = {})
    /\ [][NoRetryQueued]_vars

\* a sweep has ended in which one poll returned two logs: one was published,
\* the other failed in the timestamp lookup or in the decoder, each was
\* handled once and nothing is left to handle
C39_Witness ==
    /\ lst.pc = "sleeping"
    /\ lst.new_events = <<>>
    /\ \E n \in 1..Len(sweepLog.polls) :
          LET poll == sweepLog.polls[n] IN
          /\ Len(poll.logs) = 2
          /\ Len(poll.order) = 2
          /\ \E i, j \in 1..2 :
                /\ poll.did[i] \in EventKinds
                /\ poll.did[j] \in {"timestamp_failed", "decode_failed"}

====
